---------------------------- MODULE Spec2Model ----------------------------
(***************************************************************************)
(* A model of the picodox keyboard firmware and its host utility:          *)
(*   - the framing and message codec (proto/src/proto_impl.rs, lib.rs),    *)
(*     and the host's own encoder/decoder (cli/src/main.rs);               *)
(*   - the command server (firmware/src/serial.rs) with its receive ring,  *)
(*     the USB task and the shutdown rendezvous (firmware/src/main.rs).    *)
(*   - the keyboard tasks: matrix scan, I2C link between the halves and    *)
(*     the HID report (key_matrix.rs, i2c.rs, key_hid.rs, key_map.rs);     *)
(*   - the log ring and its drain task (firmware/src/logging.rs);          *)
(*   - the firmware session and its receiver (firmware/src/dfu.rs);        *)
(*   - the host utility's echo and its firmware-container analyzer         *)
(*     (cli/src/main.rs send_echo and analyze_uf2, cli/src/uf2.rs).        *)
(* Bytes are the integers 0..255; a buffer is a sequence of bytes.         *)
(***************************************************************************)
EXTENDS Integers, Sequences, FiniteSets

Byte == 0..255

Max(a, b) == IF a < b THEN b ELSE a

(* Result<T, E> *)
Ok(v) == [ok |-> TRUE, val |-> v]

Err(e) == [ok |-> FALSE, err |-> e]

(***************************************************************************)
(* proto/src/errors.rs: ProtoError, as proto_impl.rs and the host's tests  *)
(* construct it (BufferSize, PostcardError(u8), CrcMismatch, BadLength,    *)
(* Invariant; the constructors are called without a ucid).                 *)
(***************************************************************************)
buffer_size == [tag |-> "BufferSize"]

PostcardError(code) == [tag |-> "PostcardError", code |-> code]

crc_mismatch(calculated, actual) ==
    [tag |-> "CrcMismatch", calculated |-> calculated, actual |-> actual]

bad_length(len) == [tag |-> "BadLength", len |-> IF len > 255 THEN 255 ELSE len]

invariant(kind) == [tag |-> "Invariant", kind |-> kind]

(* `err as u8` of a postcard::Error, by the name of the error. *)
PostcardErrorCode(name) ==
    CASE name = "SerializeBufferFull" -> 2
      [] name = "DeserializeUnexpectedEnd" -> 4
      [] name = "DeserializeBadVarint" -> 5
      [] name = "DeserializeBadBool" -> 6
      [] name = "SerdeDeCustom" -> 14

PcErr(name) == Err(PostcardError(PostcardErrorCode(name)))

(***************************************************************************)
(* CRC-8/BLUETOOTH (poly 0xA7, init 0, reflected in and out, xorout 0):    *)
(* the reflected polynomial is 0xE5.                                       *)
(***************************************************************************)
RECURSIVE Xor(_, _)
Xor(a, b) ==
    IF a = 0 THEN b
    ELSE IF b = 0 THEN a
    ELSE 2 * Xor(a \div 2, b \div 2) + ((a + b) % 2)

RECURSIVE CrcShift(_, _)
CrcShift(c, n) ==
    IF n = 0 THEN c
    ELSE CrcShift(IF c % 2 = 1 THEN Xor(c \div 2, 229) ELSE c \div 2, n - 1)

CrcTable == [c \in Byte |-> CrcShift(c, 8)]

(* Mutant of checksum: a checksum that does not depend on the bytes. *)
checksum_none(buf) == 0

RECURSIVE CrcFold(_, _, _)
CrcFold(buf, i, crc) ==
    IF i > Len(buf) THEN crc
    ELSE CrcFold(buf, i + 1, CrcTable[Xor(crc, buf[i])])

checksum(buf) == CrcFold(buf, 1, 0)

(***************************************************************************)
(* COBS (the cobs crate).  The model covers buffers whose zero-free runs   *)
(* are shorter than 254 bytes (every record here encodes to at most 38     *)
(* bytes), and decodes buffers that hold no 0x00 (a frame ends at the      *)
(* first one).                                                             *)
(***************************************************************************)
FirstZero(buf) ==
    IF \E i \in 1..Len(buf) : buf[i] = 0
    THEN CHOOSE i \in 1..Len(buf) : buf[i] = 0 /\ \A j \in 1..(i - 1) : buf[j] # 0
    ELSE 0

(* cobs::encode / encode_vec: z is the place of the first 0x00 of src *)
RECURSIVE CobsEncodeAt(_, _)
CobsEncodeAt(src, z) ==
    IF z = 0 THEN <<Len(src) + 1>> \o src
    ELSE <<z>> \o SubSeq(src, 1, z - 1)
         \o CobsEncodeAt(SubSeq(src, z + 1, Len(src)),
                         FirstZero(SubSeq(src, z + 1, Len(src))))

cobs_encode(src) == CobsEncodeAt(src, FirstZero(src))

CobsFits(out, dst_len) == IF Len(out) > dst_len THEN Err("DestBufTooSmall") ELSE Ok(out)

(* cobs::try_encode into a destination of dst_len bytes *)
try_encode(src, dst_len) == CobsFits(cobs_encode(src), dst_len)

(* cobs::decode_in_place / decode_vec: si is the source index (from 1). *)
RECURSIVE CobsDecodeFrom(_, _, _)
CobsDecodeFrom(buf, si, out) ==
    IF si > Len(buf) THEN Ok(out)
    ELSE LET code == buf[si]
             nsi  == si + code
         IN IF (si - 1) + code > Len(buf) /\ code # 1 THEN Err("cobs")
            ELSE CobsDecodeFrom(buf, nsi,
                     out \o SubSeq(buf, si + 1, si + code - 1)
                         \o (IF code # 255 /\ nsi <= Len(buf) THEN <<0>> ELSE <<>>))

cobs_decode(buf) == CobsDecodeFrom(buf, 1, <<>>)

(* Result::and_then, and the `?` operator *)
AndThen(r, F(_)) == IF r.ok THEN F(r.val) ELSE r

(***************************************************************************)
(* postcard: varints.                                                      *)
(***************************************************************************)
RECURSIVE varint(_)
varint(n) == IF n < 128 THEN <<n>> ELSE <<128 + (n % 128)>> \o varint(n \div 128)

RECURSIVE Pow2(_)
Pow2(n) == IF n = 0 THEN 1 ELSE 2 * Pow2(n - 1)

(* A deserializer returns Ok([v, rest]): the value and the unread bytes. *)
Done(v, rest) == Ok([v |-> v, rest |-> rest])

(* try_take_varint_uN: max_bytes = varint_max::<uN>(), max_last =          *)
(* max_of_last_byte::<uN>().                                               *)
RECURSIVE TakeVarint(_, _, _, _, _)
TakeVarint(buf, i, acc, max_bytes, max_last) ==
    IF i >= max_bytes THEN PcErr("DeserializeBadVarint")
    ELSE IF buf = <<>> THEN PcErr("DeserializeUnexpectedEnd")
    ELSE IF Head(buf) < 128
         THEN IF i = max_bytes - 1 /\ Head(buf) > max_last
              THEN PcErr("DeserializeBadVarint")
              ELSE Done(acc + Head(buf) * Pow2(7 * i), Tail(buf))
         ELSE TakeVarint(Tail(buf), i + 1, acc + (Head(buf) % 128) * Pow2(7 * i),
                         max_bytes, max_last)

(* Mutant of take_u16: a u16 read from at most two varint bytes. *)
take_u16_two_bytes(buf) == TakeVarint(buf, 0, 0, 2, 127)

take_u16(buf) == TakeVarint(buf, 0, 0, 3, 3)

take_u32(buf) == TakeVarint(buf, 0, 0, 5, 15)

take_u64(buf) == TakeVarint(buf, 0, 0, 10, 1)

take_u8(buf) ==
    IF buf = <<>> THEN PcErr("DeserializeUnexpectedEnd")
    ELSE Done(Head(buf), Tail(buf))

take_bool(buf) ==
    IF buf = <<>> THEN PcErr("DeserializeUnexpectedEnd")
    ELSE IF Head(buf) > 1 THEN PcErr("DeserializeBadBool")
    ELSE Done(Head(buf) = 1, Tail(buf))

(* n raw bytes: [u8; n], or the elements of a Vec of u8 newtypes *)
take_bytes(buf, n) ==
    IF Len(buf) < n THEN PcErr("DeserializeUnexpectedEnd")
    ELSE Done(SubSeq(buf, 1, n), SubSeq(buf, n + 1, Len(buf)))

(***************************************************************************)
(* proto/src/lib.rs: the records.                                          *)
(***************************************************************************)
DATA_COUNT == 8

NUM_ROWS == 5

NUM_COLS == 7

NUM_KEYS == NUM_ROWS * NUM_COLS

Reset == [tag |-> "Reset"]

UsbDfu == [tag |-> "UsbDfu"]

(* Command::EchoMsg and Response::EchoMsg *)
EchoMsg(count) == [tag |-> "EchoMsg", count |-> count]

(* Command::Data and Response::Data *)
Data(data) == [tag |-> "Data", data |-> data]

Ack(kind) == [tag |-> "Ack", kind |-> kind]

Nack(reason) == [tag |-> "Nack", reason |-> reason]

Unexpected == [tag |-> "Unexpected"]

PacketErr(err) == [tag |-> "PacketErr", err |-> err]

BufferOverflow == [tag |-> "BufferOverflow"]

TimerDebug(current_time, fire_time, armed, enabled) ==
    [tag |-> "TimerDebug", current_time |-> current_time, fire_time |-> fire_time,
     armed |-> armed, enabled |-> enabled]

(* KeyResponse::Response and KeyResponse::KeyUpdate (a Vec<MatrixLoc, NUM_KEYS>) *)
KrResponse(resp) == [tag |-> "Response", resp |-> resp]

KrKeyUpdate(keys) == [tag |-> "KeyUpdate", keys |-> keys]

(***************************************************************************)
(* postcard serialization (serde derive: a varint discriminant in          *)
(* declaration order, then the fields in order).                           *)
(***************************************************************************)
SerCommand(c) ==
    CASE c.tag = "Reset" -> <<0>>
      [] c.tag = "UsbDfu" -> <<1>>
      [] c.tag = "EchoMsg" -> <<2>> \o varint(c.count)
      [] c.tag = "Data" -> <<3>> \o c.data

SerAckType(k) ==
    CASE k = "AckReset" -> <<0>>
      [] k = "AckUsbDfu" -> <<1>>
      [] k = "AckFlashFw" -> <<2>>

SerProtoError(e) ==
    CASE e.tag = "BufferSize" -> <<0>>
      [] e.tag = "PostcardError" -> <<1, e.code>>
      [] e.tag = "CrcMismatch" -> <<2, e.calculated, e.actual>>
      [] e.tag = "BadLength" -> <<3, e.len>>
      [] e.tag = "Invariant" -> <<4, e.kind>>

SerNackType(n) ==
    CASE n.tag = "Unexpected" -> <<0>>
      [] n.tag = "PacketErr" -> <<1>> \o SerProtoError(n.err)
      [] n.tag = "BufferOverflow" -> <<2>>

SerBool(b) == IF b THEN <<1>> ELSE <<0>>

SerTimerDebug(r) ==
    varint(r.current_time) \o varint(r.fire_time) \o SerBool(r.armed) \o SerBool(r.enabled)

SerResponse(r) ==
    CASE r.tag = "Ack" -> <<0>> \o SerAckType(r.kind)
      [] r.tag = "Nack" -> <<1>> \o SerNackType(r.reason)
      [] r.tag = "EchoMsg" -> <<2>> \o varint(r.count)
      [] r.tag = "Data" -> <<3>> \o r.data
      [] r.tag = "TimerDebug" -> <<4>> \o SerTimerDebug(r)

SerKeyResponse(k) ==
    CASE k.tag = "Response" -> <<0>> \o SerResponse(k.resp)
      [] k.tag = "KeyUpdate" -> <<1>> \o varint(Len(k.keys)) \o k.keys

Serialize(T, value) ==
    CASE T = "Command" -> SerCommand(value)
      [] T = "Response" -> SerResponse(value)
      [] T = "KeyResponse" -> SerKeyResponse(value)
      [] T = "KeyUpdate" -> varint(Len(value)) \o value

(* a heapless::Vec<u8, N> that would hold more than N bytes *)
FitsOr(bytes, N, err) == IF Len(bytes) > N THEN err ELSE Ok(bytes)

(* postcard::to_vec::<S, N> *)
to_vec(T, value, N) == FitsOr(Serialize(T, value), N, PcErr("SerializeBufferFull"))

(***************************************************************************)
(* postcard deserialization.                                               *)
(***************************************************************************)
DeCommandVariant(d) ==
    CASE d.v = 0 -> Done(Reset, d.rest)
      [] d.v = 1 -> Done(UsbDfu, d.rest)
      [] d.v = 2 -> AndThen(take_u16(d.rest), LAMBDA c : Done(EchoMsg(c.v), c.rest))
      [] d.v = 3 -> AndThen(take_bytes(d.rest, DATA_COUNT), LAMBDA a : Done(Data(a.v), a.rest))
      [] OTHER -> PcErr("SerdeDeCustom")

DeCommand(buf) == AndThen(take_u32(buf), DeCommandVariant)

DeAckTypeVariant(d) ==
    CASE d.v = 0 -> Done("AckReset", d.rest)
      [] d.v = 1 -> Done("AckUsbDfu", d.rest)
      [] d.v = 2 -> Done("AckFlashFw", d.rest)
      [] OTHER -> PcErr("SerdeDeCustom")

DeAckType(buf) == AndThen(take_u32(buf), DeAckTypeVariant)

DeProtoErrorVariant(d) ==
    CASE d.v = 0 -> Done(buffer_size, d.rest)
      [] d.v = 1 -> AndThen(take_u8(d.rest), LAMBDA a : Done(PostcardError(a.v), a.rest))
      [] d.v = 2 -> AndThen(take_bytes(d.rest, 2),
                            LAMBDA a : Done(crc_mismatch(a.v[1], a.v[2]), a.rest))
      [] d.v = 3 -> AndThen(take_u8(d.rest),
                            LAMBDA a : Done([tag |-> "BadLength", len |-> a.v], a.rest))
      [] d.v = 4 -> AndThen(take_u8(d.rest), LAMBDA a : Done(invariant(a.v), a.rest))
      [] OTHER -> PcErr("SerdeDeCustom")

DeProtoError(buf) == AndThen(take_u32(buf), DeProtoErrorVariant)

DeNackTypeVariant(d) ==
    CASE d.v = 0 -> Done(Unexpected, d.rest)
      [] d.v = 1 -> AndThen(DeProtoError(d.rest), LAMBDA e : Done(PacketErr(e.v), e.rest))
      [] d.v = 2 -> Done(BufferOverflow, d.rest)
      [] OTHER -> PcErr("SerdeDeCustom")

DeNackType(buf) == AndThen(take_u32(buf), DeNackTypeVariant)

DeTimerDebug(buf) ==
    AndThen(take_u64(buf), LAMBDA t :
    AndThen(take_u32(t.rest), LAMBDA f :
    AndThen(take_bool(f.rest), LAMBDA a :
    AndThen(take_bool(a.rest), LAMBDA e :
    Done(TimerDebug(t.v, f.v, a.v, e.v), e.rest)))))

DeResponseVariant(d) ==
    CASE d.v = 0 -> AndThen(DeAckType(d.rest), LAMBDA k : Done(Ack(k.v), k.rest))
      [] d.v = 1 -> AndThen(DeNackType(d.rest), LAMBDA n : Done(Nack(n.v), n.rest))
      [] d.v = 2 -> AndThen(take_u16(d.rest), LAMBDA c : Done(EchoMsg(c.v), c.rest))
      [] d.v = 3 -> AndThen(take_bytes(d.rest, DATA_COUNT), LAMBDA a : Done(Data(a.v), a.rest))
      [] d.v = 4 -> DeTimerDebug(d.rest)
      [] OTHER -> PcErr("SerdeDeCustom")

DeResponse(buf) == AndThen(take_u32(buf), DeResponseVariant)

(* heapless::Vec<MatrixLoc, NUM_KEYS>: a varint length, then the bytes; an *)
(* element beyond the capacity is a serde invalid_length error.            *)
DeKeyUpdateElems(n) ==
    IF n.v > NUM_KEYS
    THEN IF Len(n.rest) < NUM_KEYS + 1
         THEN PcErr("DeserializeUnexpectedEnd") ELSE PcErr("SerdeDeCustom")
    ELSE AndThen(take_bytes(n.rest, n.v), LAMBDA a : Done(KrKeyUpdate(a.v), a.rest))

DeKeyUpdate(buf) == AndThen(take_u32(buf), DeKeyUpdateElems)

DeKeyResponseVariant(d) ==
    CASE d.v = 0 -> AndThen(DeResponse(d.rest), LAMBDA r : Done(KrResponse(r.v), r.rest))
      [] d.v = 1 -> DeKeyUpdate(d.rest)
      [] OTHER -> PcErr("SerdeDeCustom")

DeKeyResponse(buf) == AndThen(take_u32(buf), DeKeyResponseVariant)

(* a KeyUpdate on its own is the sequence of its MatrixLoc bytes *)
DeKeyUpdateBare(buf) == AndThen(DeKeyUpdate(buf), LAMBDA k : Done(k.v.keys, k.rest))

Deserialize(T, buf) ==
    CASE T = "Command" -> DeCommand(buf)
      [] T = "Response" -> DeResponse(buf)
      [] T = "KeyResponse" -> DeKeyResponse(buf)
      [] T = "KeyUpdate" -> DeKeyUpdateBare(buf)

(* postcard::from_bytes::<D>: the unread rest is dropped *)
from_bytes(T, buf) == AndThen(Deserialize(T, buf), LAMBDA d : Ok(d.v))

(***************************************************************************)
(* proto/src/lib.rs: WireSize.  POSTCARD_MAX_SIZE is what the MaxSize      *)
(* derive computes: one discriminant byte plus the largest variant.        *)
(***************************************************************************)
(* Mutant of cobs_max_length: no room for the escape codes. *)
cobs_no_overhead(source_len) == source_len

cobs_max_length(source_len) ==
    source_len + (source_len \div 254) + (IF source_len % 254 > 0 THEN 1 ELSE 0)

ProtoErrorMaxSize == 1 + 2

TimerDebugMaxSize == 10 + 5 + 1 + 1

ResponseMaxSize ==
    1 + Max(Max(1, 1 + ProtoErrorMaxSize), Max(Max(3, DATA_COUNT), TimerDebugMaxSize))

POSTCARD_MAX_SIZE(T) ==
    CASE T = "Command" -> 1 + Max(3, DATA_COUNT)
      [] T = "Response" -> ResponseMaxSize
      [] T = "KeyResponse" -> 1 + Max(ResponseMaxSize, 1 + NUM_KEYS)
      [] T = "KeyUpdate" -> 1 + NUM_KEYS

WIRE_MAX_SIZE(T) == cobs_max_length(POSTCARD_MAX_SIZE(T) + 1) + 1

CS_MAX_SIZE(T) == POSTCARD_MAX_SIZE(T) + 1

(***************************************************************************)
(* proto/src/proto_impl.rs.  N is the capacity of the heapless::Vec the    *)
(* caller asks for.                                                        *)
(***************************************************************************)
(* proto_impl.rs 17-20: buf.push(crc), which fails on a full Vec *)
PushCrc(buf, N) ==
    IF Len(buf) >= N THEN Err(invariant(1)) ELSE Ok(Append(buf, checksum(buf)))

cs_encode(T, value, N) ==
    IF N < CS_MAX_SIZE(T) THEN Err(buffer_size)
    ELSE AndThen(to_vec(T, value, N), LAMBDA buf : PushCrc(buf, N))

(* Mutant of PushSentinel: the delimiter is not appended. *)
PushNoSentinel(enc, N) == IF ~enc.ok THEN Err(invariant(3)) ELSE Ok(enc.val)

(* proto_impl.rs 30-36: the escape encoding and the delimiter *)
PushSentinel(enc, N) ==
    IF ~enc.ok THEN Err(invariant(3))
    ELSE IF Len(enc.val) >= N THEN Err(invariant(4))
    ELSE Ok(Append(enc.val, 0))

wire_encode(T, value, N) ==
    IF N < WIRE_MAX_SIZE(T) THEN Err(buffer_size)
    ELSE AndThen(cs_encode(T, value, N), LAMBDA buf : PushSentinel(try_encode(buf, N), N))

(* Mutant of CheckCrc: the message is decoded whatever the CRC byte is. *)
CheckNoCrc(T, message_buf, actual_crc, calc_crc) == from_bytes(T, message_buf)

(* proto_impl.rs 46-60 *)
CheckCrc(T, message_buf, actual_crc, calc_crc) ==
    IF actual_crc # calc_crc
    THEN Err(crc_mismatch(calc_crc, actual_crc))
    ELSE from_bytes(T, message_buf)

cs_decode(T, buf) ==
    IF Len(buf) = 0 THEN Err(bad_length(Len(buf)))
    ELSE CheckCrc(T, SubSeq(buf, 1, Len(buf) - 1), buf[Len(buf)],
                  checksum(SubSeq(buf, 1, Len(buf) - 1)))

(* Mutant of AfterCobs: a chain that does not decode is taken as empty. *)
AfterCobsEmpty(T, dec) == cs_decode(T, IF dec.ok THEN dec.val ELSE <<>>)

(* proto_impl.rs 71-73 *)
AfterCobs(T, dec) == IF ~dec.ok THEN Err(invariant(6)) ELSE cs_decode(T, dec.val)

wire_decode(T, buf) ==
    IF buf = <<>> \/ buf[Len(buf)] # 0 THEN Err(invariant(5))
    ELSE AfterCobs(T, cobs_decode(SubSeq(buf, 1, Len(buf) - 1)))

(***************************************************************************)
(* cli/src/main.rs: the host's own framing.  send_command yields the bytes *)
(* it writes; recv_response reads up to the first 0x00 of its input.       *)
(***************************************************************************)
HostPushCrc(bytes) == Append(bytes, checksum(bytes))

send_command(T, command) == Append(cobs_encode(HostPushCrc(Serialize(T, command))), 0)

(* main.rs 210-211 *)
HostDeserialize(r) == IF r.ok THEN r ELSE Err("Failed to deserialize")

(* main.rs 194-207 *)
HostCheckCrc(T, dec) ==
    IF dec = <<>> THEN Err("missing CRC")
    ELSE IF checksum(SubSeq(dec, 1, Len(dec) - 1)) # dec[Len(dec)]
    THEN Err("Invalid packet CRC")
    ELSE HostDeserialize(from_bytes(T, SubSeq(dec, 1, Len(dec) - 1)))

(* main.rs 190-192 *)
HostAfterCobs(T, dec) == IF ~dec.ok THEN Err("illegal cobs") ELSE HostCheckCrc(T, dec.val)

(* main.rs 180-187: read_until(0), then the sentinel is popped and asserted *)
HostReadFrame(T, read_buf) ==
    IF read_buf = <<>> \/ read_buf[Len(read_buf)] # 0 THEN Err("panic")
    ELSE HostAfterCobs(T, cobs_decode(SubSeq(read_buf, 1, Len(read_buf) - 1)))

ReadUntilZero(port, z) == IF z = 0 THEN port ELSE SubSeq(port, 1, z)

recv_response(T, port) == HostReadFrame(T, ReadUntilZero(port, FirstZero(port)))

(***************************************************************************)
(* The command server (firmware/src/serial.rs), the USB task and the       *)
(* shutdown rendezvous (firmware/src/main.rs), and a host that writes      *)
(* frames and garbage to the primary serial endpoint.                      *)
(***************************************************************************)
VARIABLES
    wire,               \* bytes the host has written and the device has not read yet
    hist,               \* history: the items the host has written, in order
    coms_buf,           \* Packetizer.coms_buf, oldest byte first
    lost_bytes,         \* recv_cmd's local of that name
    pc,                 \* where the serial task is: idle, echo, shutdown, halted, parked
    iters,              \* iterations recv_data's for loop has still to run
    pending,            \* the command whose handler called shutdown()
    tx,                 \* the packets written to the primary endpoint, in order
    returns,            \* history: what each call of recv_cmd returned
    echo_at,            \* history: the index in returns of the last EchoMsg handled
    echo_tx,            \* history: Len(tx) when that EchoMsg was handled
    initiate_shutdown,  \* INITIATE_SHUTDOWN holds a value
    usb_shutdown,       \* USB_SHUTDOWN is signalled
    usb_pc,             \* where the USB task is: run, disable, signal, done
    usb_enabled,        \* the USB device has not been disabled
    reset,              \* the reset the serial task has triggered: none, watchdog, bootrom
    ty,                 \* codec runs: the type of the value, Command, Response, KeyResponse
    x,                  \* codec runs: the value
    framing,            \* codec runs: the encoder applied: none, cs, wire, host
    frame,              \* codec runs: what the encoder returned
    tampered,           \* codec runs: a byte of the frame was changed in transit
    flipped,            \* codec runs: the change was the flip of one bit
    decoder,            \* codec runs: the decoder applied: none, cs_decode, wire_decode,
                        \* recv_response
    decoded,            \* codec runs: what the decoder returned
    hand_pin,           \* keyboard: the level read from the strap pin, Low or High
    this_hand,          \* keyboard: main's this_hand, Left or Right
    tasks,              \* keyboard: the tasks main has spawned
    left_signal,        \* keyboard: LEFT_SIGNAL, a Signal<KeyUpdate>
    right_signal,       \* keyboard: RIGHT_SIGNAL, a Signal<KeyUpdate>
    hid_left,           \* keyboard: the local `left` of KeyboardIf::run
    hid_right,          \* keyboard: the local `right` of KeyboardIf::run
    hid_last,           \* keyboard: the last report handed to the HID writer
    i2c_last,           \* keyboard: the last buffer written to the inter-half bus
    pubs_left,          \* history: what LEFT_SIGNAL was signalled with since the last tick
    pubs_right,         \* history: what RIGHT_SIGNAL was signalled with since the last tick
                        \* (on the half without HID reporter: since boot)
    TAKEN,              \* logger: the lock of the global logger
    log_buf,            \* logger: GLOBAL_COMS.buf, oldest byte first; a byte is written as
                        \* its ordinal among the bytes produced
    log_sig,            \* logger: GLOBAL_COMS.sig is signalled
    log_pc,             \* logger: where the drain task is: wait, woken, write, zlp
    log_send,           \* logger: send_buf[..send_len] of LoggerIf::run
    log_zlp,            \* logger: is_all && send_len == MAX_PACKET_SIZE && is_empty
    log_tx,             \* logger: the packets handed to the secondary endpoint, in order
    log_count,          \* history: how many bytes the producers have appended
    log_writes,         \* history: how many times do_write has run
    log_lost,           \* history: a do_write pushed unsent bytes out of the ring
    log_left,           \* history: the length of the ring after the last drain
    log_depth,          \* history: acquires not yet matched by a release
    log_panic,          \* logger: acquire has panicked
    fw_guard,           \* firmware: the caller that holds FirmwareIntf.mutex, 0 for none
    fw_pc,              \* firmware: where each caller is: idle, lock, held, finish, gone
    fw_offset,          \* firmware: FirmwareSession.offset of each caller
    fw_data,            \* firmware: FirmwareSession.data of each caller
    fw_calls,           \* history: how many calls each caller has made on its session
    fw_chan,            \* firmware: FirmwareState.channel, oldest message first
    fw_sent,            \* history: every message sent, with the caller that sent it
    fw_state,           \* firmware: where FirmwareRecvr::run is: idle, updating, parked
    fw_flash,           \* firmware: the blocks handed to the updater's writer, in order
    i2c_pc,             \* bus master: where I2cMaster::run is: wait, write
    i2c_taken,          \* history: the updates the bus master took from its signal
    i2c_tx,             \* history: the writes the bus master made, with their results
    i2c_event,          \* history: what the bus slave's listen() returned last since the
                        \* last tick
    scan_pc,            \* matrix scan: where KeyMatrix::run is: idle, high, settle, rows,
                        \* low, publish, sleep
    scan_col,           \* matrix scan: the column of the for loop
    col_high,           \* matrix scan: the column pins that are driven high
    scan_vec,           \* matrix scan: the local code_vec
    scan_rows,          \* history: the row pins the last sample found high
    usb_err,            \* primary endpoint: the USB error the serial task logged
    host_pc,            \* host echo: where send_echo is
    host_msg,           \* host echo: the bytes of `content`
    host_sent,          \* host echo: how many Data commands it has written
    host_pos,           \* host echo: how many bytes of the device's output it has read
    host_count,         \* host echo: resp_count
    host_i,             \* host echo: the i of its receive loop
    host_content,       \* host echo: resp_content
    host_result,        \* host echo: what send_echo returned, with what it printed
    uf2_blocks,         \* analyzer: the blocks Uf2Block::parse returned
    uf2_pc,             \* analyzer: where analyze_uf2 is: first, loop, last, done, failed
    uf2_idx,            \* analyzer: the place in blocks[1..] of the next block
    uf2_bounds,         \* analyzer: the local `bounds`
    uf2_out,            \* analyzer: the ranges printed, in order
    cs_held,            \* logger: a critical section is active (interrupts are off)
    CS_RESTORE,         \* logger: the RestoreState acquire saved: was one active before
    cs_outer,           \* logger: the producer's caller is inside a critical section
    rec_start,          \* history: log_count when the open record was acquired
    rec_done            \* history: log_count when the last record was released

server_vars == <<wire, hist, coms_buf, lost_bytes, pc, iters, pending, tx, returns,
                 echo_at, echo_tx, initiate_shutdown, usb_shutdown, usb_pc, usb_enabled, reset>>

codec_vars == <<ty, x, framing, frame, tampered, flipped, decoder, decoded>>

kbd_vars == <<hand_pin, this_hand, tasks, left_signal, right_signal, hid_left, hid_right,
              hid_last, i2c_last, pubs_left, pubs_right, i2c_pc, i2c_taken, i2c_tx, i2c_event>>

log_vars == <<TAKEN, log_buf, log_sig, log_pc, log_send, log_zlp, log_tx, log_count,
              log_writes, log_lost, log_left, log_depth, log_panic>>

fw_vars == <<fw_guard, fw_pc, fw_offset, fw_data, fw_calls, fw_chan, fw_sent, fw_state,
             fw_flash>>

scan_vars == <<scan_pc, scan_col, col_high, scan_vec, scan_rows>>

usb_vars == <<usb_err>>

host_vars == <<host_pc, host_msg, host_sent, host_pos, host_count, host_i, host_content,
               host_result>>

uf2_vars == <<uf2_blocks, uf2_pc, uf2_idx, uf2_bounds, uf2_out>>

rec_vars == <<cs_held, CS_RESTORE, cs_outer, rec_start, rec_done>>

(* the variables of the parts added last: the pins of the matrix scan, the *)
(* USB error of the primary endpoint, the host's echo, the analyzer        *)
rest_vars == <<scan_vars, usb_vars, host_vars, uf2_vars, rec_vars>>

vars == <<server_vars, codec_vars, kbd_vars, log_vars, fw_vars, rest_vars>>

(* what an action of the command server, of a codec run, of the keyboard,  *)
(* of the logger, of the firmware session leaves alone                     *)
beside_server == <<codec_vars, kbd_vars, log_vars, fw_vars, rest_vars>>

beside_codec == <<server_vars, kbd_vars, log_vars, fw_vars, rest_vars>>

beside_kbd == <<server_vars, codec_vars, log_vars, fw_vars, rest_vars>>

beside_log == <<server_vars, codec_vars, kbd_vars, fw_vars, rest_vars>>

beside_fw == <<server_vars, codec_vars, kbd_vars, log_vars, rest_vars>>

(* what a USB error of the primary endpoint leaves alone, but for the *)
(* variables of the command server                                   *)
beside_usb == <<codec_vars, kbd_vars, log_vars, fw_vars, scan_vars, host_vars, uf2_vars,
                rec_vars>>

(* what a step of the matrix scan followed pin by pin leaves alone, but    *)
(* for the variables of the keyboard                                       *)
beside_scan == <<server_vars, codec_vars, log_vars, fw_vars, usb_vars, host_vars, uf2_vars,
                 rec_vars>>

MAX_PACKET_SIZE == 64

COMS_CAPACITY == 2 * MAX_PACKET_SIZE

(* How many items the host writes in one run. *)
MaxFrames == 3

(* ------------------------------ the host ------------------------------ *)
EchoCounts == {0, 9}

DataSet == {<<97, 98, 99, 0, 0, 0, 0, 0>>, <<1, 2, 3, 4, 5, 6, 7, 8>>}

HostCommands ==
    {Reset, UsbDfu} \cup {EchoMsg(n) : n \in EchoCounts} \cup {Data(d) : d \in DataSet}

(* delimiter-terminated frames that do not decode: a wrong CRC, a broken   *)
(* escape chain                                                            *)
BadFrames == {<<3, 1, 108, 0>>, <<5, 1, 0>>}

(* bytes with no 0x00 among them, the last one 2 * MTU + 1 bytes long *)
LongGarbage == [i \in 1..(2 * MAX_PACKET_SIZE + 1) |-> 255]

GarbageSet == {<<2, 65>>, LongGarbage}

HostItems ==
    {[kind |-> "cmd", cmd |-> c, bytes |-> send_command("Command", c)] : c \in HostCommands}
    \cup {[kind |-> "bad", bytes |-> b] : b \in BadFrames}
    \cup {[kind |-> "garbage", bytes |-> g] : g \in GarbageSet}

HostSend(item) ==
    /\ usb_enabled
    /\ Len(hist) < MaxFrames
    /\ item.bytes = LongGarbage => hist = <<>>
    /\ (hist # <<>> /\ hist[1].bytes = LongGarbage) => item.kind = "cmd"
    /\ wire' = wire \o item.bytes
    /\ hist' = Append(hist, item)
    /\ UNCHANGED beside_server
    /\ UNCHANGED <<coms_buf, lost_bytes, pc, iters, pending, tx, returns, echo_at, echo_tx,
                   initiate_shutdown, usb_shutdown, usb_pc, usb_enabled, reset>>

(* ------------------------- Packetizer::recv_cmd ------------------------ *)
(* CircularBuffer::extend_from_slice: the oldest bytes give way. *)
extend_from_slice(buf, slice) ==
    LET all == buf \o slice IN
    IF Len(all) > COMS_CAPACITY
    THEN SubSeq(all, Len(all) - COMS_CAPACITY + 1, Len(all))
    ELSE all

(* CircularBuffer::truncate_front(len): keeps the last len bytes. *)
truncate_front(buf, len) == SubSeq(buf, Len(buf) - len + 1, Len(buf))

(* Mutant of Overflows: no packet is ever taken to overflow the ring. *)
OverflowsNever(buf, count) == FALSE

(* serial.rs 68-73: the packet does not fit the open capacity *)
Overflows(buf, count) == COMS_CAPACITY - Len(buf) < count

InRecvCmd == pc \in {"idle", "echo"}

(* serial.rs 64-74: no delimiter in the ring, so read_packet is awaited;   *)
(* the packet holds the next count bytes of the stream, 1 <= count <= MTU. *)
RecvPacket(count) ==
    /\ InRecvCmd
    /\ FirstZero(coms_buf) = 0
    /\ count <= Len(wire)
    /\ lost_bytes' = (lost_bytes \/ Overflows(coms_buf, count))
    /\ coms_buf' = extend_from_slice(coms_buf, SubSeq(wire, 1, count))
    /\ wire' = SubSeq(wire, count + 1, Len(wire))
    /\ UNCHANGED beside_server
    /\ UNCHANGED <<hist, pc, iters, pending, tx, returns, echo_at, echo_tx,
                   initiate_shutdown, usb_shutdown, usb_pc, usb_enabled, reset>>

(* Mutant of MapPacketErr: a decode error is reported as Unexpected. *)
MapUnexpected(r) == IF r.ok THEN r ELSE Err(Unexpected)

(* Mutant of RecvCmdRing: one byte after the delimiter leaves the ring too. *)
RecvCmdRingGreedy ==
    truncate_front(coms_buf, Max(0, Len(coms_buf) - FirstZero(coms_buf) - 1))

(* serial.rs 52-61 and 77-86: what recv_cmd returns once the ring holds a  *)
(* delimiter, and the ring it leaves.                                      *)
MapPacketErr(r) == IF r.ok THEN r ELSE Err(PacketErr(r.err))

RecvCmdResult ==
    IF lost_bytes THEN Err(BufferOverflow)
    ELSE MapPacketErr(wire_decode("Command", SubSeq(coms_buf, 1, FirstZero(coms_buf))))

(* Mutant of RecvCmdRing: the ring is emptied when recv_cmd returns. *)
RecvCmdRingCleared == truncate_front(coms_buf, 0)

RecvCmdRing == truncate_front(coms_buf, Len(coms_buf) - FirstZero(coms_buf))

(* recv_cmd returns res: the frame leaves the ring; the next call starts   *)
(* with lost_bytes = false.                                                *)
RecvCmdReturns(res) ==
    /\ InRecvCmd
    /\ FirstZero(coms_buf) # 0
    /\ res = RecvCmdResult
    /\ coms_buf' = RecvCmdRing
    /\ lost_bytes' = FALSE
    /\ returns' = Append(returns, res)

(* ------------------ Packetizer::send_packet / send_buf ----------------- *)
RECURSIVE send_buf(_)
send_buf(buf) ==
    IF Len(buf) >= MAX_PACKET_SIZE
    THEN <<SubSeq(buf, 1, MAX_PACKET_SIZE)>>
         \o send_buf(SubSeq(buf, MAX_PACKET_SIZE + 1, Len(buf)))
    ELSE <<buf>>

(* serial.rs 109-112 *)
EncodedOrBeef(enc) == IF enc.ok THEN enc.val ELSE <<190, 239, 0>>

send_packet(response) ==
    send_buf(EncodedOrBeef(wire_encode("Response", response, WIRE_MAX_SIZE("Response"))))

(* ----------------------------- SerialIf::run --------------------------- *)
(* serial.rs 160-164 *)
OnRecvError ==
    \E res \in {RecvCmdResult} :
        /\ pc = "idle"
        /\ RecvCmdReturns(res)
        /\ ~res.ok
        /\ tx' = tx \o send_packet(Nack(res.err))
        /\ UNCHANGED beside_server
        /\ UNCHANGED <<wire, hist, pc, iters, pending, echo_at, echo_tx,
                       initiate_shutdown, usb_shutdown, usb_pc, usb_enabled, reset>>

(* Mutant of ShutdownSend: shutdown() awaits USB_SHUTDOWN without having *)
(* sent on INITIATE_SHUTDOWN.                                            *)
ShutdownSendsNothing(cmd) ==
    /\ UNCHANGED initiate_shutdown
    /\ pending' = cmd
    /\ pc' = "shutdown"

(* main.rs 261-265, up to the await: the value is published *)
ShutdownSend(cmd) ==
    /\ initiate_shutdown' = TRUE
    /\ pending' = cmd
    /\ pc' = "shutdown"

(* serial.rs 167-178, up to the await inside shutdown() *)
OnReset ==
    \E res \in {RecvCmdResult} :
        /\ pc = "idle"
        /\ RecvCmdReturns(res)
        /\ res.ok /\ res.val.tag \in {"Reset", "UsbDfu"}
        /\ ShutdownSend(res.val.tag)
        /\ UNCHANGED beside_server
        /\ UNCHANGED <<wire, hist, iters, tx, echo_at, echo_tx,
                       usb_shutdown, usb_pc, usb_enabled, reset>>

(* Mutant of StepByCount: a last partial chunk gets no iteration. *)
StepByFloor(count) == count \div DATA_COUNT

(* recv_data's `for _ in (0..count).step_by(DATA_COUNT)`: its iterations *)
StepByCount(count) == (count + DATA_COUNT - 1) \div DATA_COUNT

(* serial.rs 179-182 *)
OnEchoMsg ==
    \E res \in {RecvCmdResult} :
        /\ pc = "idle"
        /\ RecvCmdReturns(res)
        /\ res.ok /\ res.val.tag = "EchoMsg"
        /\ tx' = tx \o send_packet(EchoMsg(res.val.count))
        /\ iters' = StepByCount(res.val.count)
        /\ pc' = IF iters' = 0 THEN "idle" ELSE "echo"
        /\ echo_at' = Len(returns')
        /\ echo_tx' = Len(tx)
        /\ UNCHANGED beside_server
        /\ UNCHANGED <<wire, hist, pending, initiate_shutdown, usb_shutdown,
                       usb_pc, usb_enabled, reset>>

(* Mutant of IdleDataReply: an idle Data command is answered like an overflow. *)
IdleDataOverflow == Nack(BufferOverflow)

(* serial.rs 185: the response to a Data command outside a session *)
IdleDataReply == Nack(Unexpected)

(* serial.rs 183-187 *)
OnData ==
    \E res \in {RecvCmdResult} :
        /\ pc = "idle"
        /\ RecvCmdReturns(res)
        /\ res.ok /\ res.val.tag = "Data"
        /\ tx' = tx \o send_packet(IdleDataReply)
        /\ UNCHANGED beside_server
        /\ UNCHANGED <<wire, hist, pc, iters, pending, echo_at, echo_tx,
                       initiate_shutdown, usb_shutdown, usb_pc, usb_enabled, reset>>

(* Mutant of DataOrUnexpected: whatever is not a Data command is Unexpected. *)
DataOrAllUnexpected(res) ==
    IF res.ok /\ res.val.tag = "Data" THEN Ok(res.val.data) ELSE Err(Unexpected)

(* serial.rs 94-97: recv_cmd().and_then(...) *)
DataOrUnexpected(res) ==
    IF ~res.ok THEN res
    ELSE IF res.val.tag = "Data" THEN Ok(res.val.data)
    ELSE Err(Unexpected)

(* EchoRecvr::callback, serial.rs 136-138 *)
EchoCallback(data) == send_packet(Data(data))

(* serial.rs 98-104 *)
EchoReply(r) == IF r.ok THEN EchoCallback(r.val) ELSE send_packet(Nack(r.err))

(* serial.rs 93-105: one iteration of recv_data's loop *)
EchoStep ==
    \E res \in {RecvCmdResult} :
        /\ pc = "echo"
        /\ RecvCmdReturns(res)
        /\ tx' = tx \o EchoReply(DataOrUnexpected(res))
        /\ iters' = iters - 1
        /\ pc' = IF iters' = 0 THEN "idle" ELSE "echo"
        /\ UNCHANGED beside_server
        /\ UNCHANGED <<wire, hist, pending, echo_at, echo_tx,
                       initiate_shutdown, usb_shutdown, usb_pc, usb_enabled, reset>>

(* ------------- USB errors of the primary endpoint, util.rs 5-27 -------- *)
(* Mutant of ParkedOnError: the error is logged and the loop goes on. *)
ContinuesOnError(at) == at

(* async_unwrap!(res ..) on Err: async_panic! logs the error and awaits *)
(* pending(), which never completes                                     *)
ParkedOnError(at) == "parked"

(* serial.rs 64-65: read_packet, awaited with no delimiter in the ring, *)
(* returns an error                                                     *)
UsbReadError ==
    /\ InRecvCmd
    /\ FirstZero(coms_buf) = 0
    /\ usb_err' = "read"
    /\ pc' = ParkedOnError(pc)
    /\ UNCHANGED <<wire, hist, coms_buf, lost_bytes, iters, pending, tx, returns, echo_at,
                   echo_tx, initiate_shutdown, usb_shutdown, usb_pc, usb_enabled, reset>>
    /\ UNCHANGED beside_usb

(* the handler of what recv_cmd returned writes a packet: every handler *)
(* but those of Reset and UsbDfu                                        *)
Answers(res) ==
    IF pc = "echo" \/ ~res.ok THEN TRUE ELSE res.val.tag \in {"EchoMsg", "Data"}

(* serial.rs 121-125: recv_cmd has returned and the first write_packet of *)
(* the answer returns an error; every answer is shorter than a packet, so *)
(* nothing of it was written                                              *)
UsbWriteError ==
    \E res \in {RecvCmdResult} :
        /\ RecvCmdReturns(res)
        /\ Answers(res)
        /\ usb_err' = "write"
        /\ pc' = ParkedOnError(pc)
        /\ UNCHANGED <<wire, hist, iters, pending, tx, echo_at, echo_tx, initiate_shutdown,
                       usb_shutdown, usb_pc, usb_enabled, reset>>
        /\ UNCHANGED beside_usb

(* Mutant of ShutdownAcked: shutdown() returns without awaiting USB_SHUTDOWN. *)
ShutdownNotAwaited == TRUE

(* main.rs 264: USB_SHUTDOWN.wait() completes once the signal is set *)
ShutdownAcked == usb_shutdown

(* serial.rs 170-172 and 176-177: after shutdown() returned *)
TriggerReset ==
    /\ pc = "shutdown"
    /\ ShutdownAcked
    /\ usb_shutdown' = FALSE
    /\ reset' = IF pending = "Reset" THEN "watchdog" ELSE "bootrom"
    /\ pc' = "halted"
    /\ UNCHANGED beside_server
    /\ UNCHANGED <<wire, hist, coms_buf, lost_bytes, iters, pending, tx, returns,
                   echo_at, echo_tx, initiate_shutdown, usb_pc, usb_enabled>>

(* ------------------------- usb_task, main.rs 283-288 ------------------- *)
(* select(usb.run(), shutdown_receiver.get()) completes on the value *)
UsbSeesShutdown ==
    /\ usb_pc = "run"
    /\ initiate_shutdown
    /\ usb_pc' = "disable"
    /\ UNCHANGED beside_server
    /\ UNCHANGED <<wire, hist, coms_buf, lost_bytes, pc, iters, pending, tx, returns,
                   echo_at, echo_tx, initiate_shutdown, usb_shutdown, usb_enabled, reset>>

(* usb.disable().await *)
UsbDisable ==
    /\ usb_pc = "disable"
    /\ usb_enabled' = FALSE
    /\ usb_pc' = "signal"
    /\ UNCHANGED beside_server
    /\ UNCHANGED <<wire, hist, coms_buf, lost_bytes, pc, iters, pending, tx, returns,
                   echo_at, echo_tx, initiate_shutdown, usb_shutdown, reset>>

(* USB_SHUTDOWN.signal(()) *)
UsbSignalDone ==
    /\ usb_pc = "signal"
    /\ usb_shutdown' = TRUE
    /\ usb_pc' = "done"
    /\ UNCHANGED beside_server
    /\ UNCHANGED <<wire, hist, coms_buf, lost_bytes, pc, iters, pending, tx, returns,
                   echo_at, echo_tx, initiate_shutdown, usb_enabled, reset>>

(***************************************************************************)
(* The keyboard: the tasks main spawns on each half (firmware/src/main.rs), *)
(* the matrix scan (key_matrix.rs), the inter-half bus (i2c.rs), the HID    *)
(* reporter (key_hid.rs) and the key map (key_map.rs, key_codes.rs).        *)
(***************************************************************************)
(* Option<T> *)
None == [some |-> FALSE]

Some(v) == [some |-> TRUE, v |-> v]

NUM_HANDS == 2

(* Mutant of MatrixLoc: the row is scaled by the number of rows. *)
MatrixLocByRows(row, col) == row * NUM_ROWS + col

(* MatrixLoc::new *)
MatrixLoc(row, col) == row * NUM_COLS + col

(* KeyUpdate::no_keys *)
no_keys == <<>>

(* key_codes.rs: Key::Mod(KeyMod(m)) and Key::Code(KeyCode(c)) *)
kmod(key_mod) == [kind |-> "Mod", v |-> key_mod]

kcode(key_code) == [kind |-> "Code", v |-> key_code]

KEY_NONE == kcode(0)

(* key_map.rs 8-14: the place in the tables of key K<idx> of each side, *)
(* counted from 0 as in the source (l and r there)                      *)
L(idx) == idx - 1

R(idx) == NUM_KEYS + idx - 1

(* key_map.rs 28-111, with the codes of key_codes.rs *)
KEY_MATRIX == <<
    kcode(0), kcode(34), kcode(33), kcode(32), kcode(31), kcode(30), kcode(53),   \* NONE 5 4 3 2 1 GRAVE
    kcode(47), kcode(23), kcode(21), kcode(8), kcode(26), kcode(20), kcode(43),   \* LEFTBRACE T R E W Q TAB
    kcode(75), kcode(10), kcode(9), kcode(7), kcode(22), kcode(4), kcode(42),   \* PAGEUP G F D S A BACKSPACE
    kcode(78), kcode(5), kcode(25), kcode(6), kcode(27), kcode(29), kcode(0),   \* PAGEDOWN B V C X Z NONE
    kcode(41), kmod(2), kmod(1), kmod(4), kcode(49), kcode(76), kmod(8),   \* ESC MOD_LSHIFT MOD_LCTRL MOD_LALT BACKSLASH DELETE MOD_LMETA
    kcode(0), kcode(35), kcode(36), kcode(37), kcode(38), kcode(39), kcode(46),   \* NONE 6 7 8 9 0 EQUAL
    kcode(48), kcode(28), kcode(24), kcode(12), kcode(18), kcode(19), kcode(45),   \* RIGHTBRACE Y U I O P MINUS
    kcode(77), kcode(11), kcode(13), kcode(14), kcode(15), kcode(51), kcode(52),   \* END H J K L SEMICOLON APOSTROPHE
    kcode(74), kcode(17), kcode(16), kcode(54), kcode(55), kcode(56), kcode(0),   \* HOME N M COMMA DOT SLASH NONE
    kcode(40), kcode(44), kcode(0), kcode(80), kcode(81), kcode(82), kcode(79)   \* ENTER SPACE NONE LEFT DOWN UP RIGHT
    >>

(* from_pairs: every place is KEY_NONE but the places of the pairs *)
from_pairs(pairs) ==
    [i \in 1..2 * NUM_KEYS |->
        IF \E p \in pairs : p[1] = i - 1
        THEN (CHOOSE p \in pairs : p[1] = i - 1)[2]
        ELSE KEY_NONE]

(* KEY_LEFT, KEY_DOWN, KEY_UP, KEY_RIGHT *)
NAV_MATRIX ==
    from_pairs({<<R(16), kcode(80)>>, <<R(17), kcode(81)>>,
                <<R(18), kcode(82)>>, <<R(19), kcode(79)>>})

(* KeyState::from_update: an array of NUM_KEYS * NUM_HANDS booleans; the   *)
(* place of a key is counted from 0 in the source, from 1 here.  An update *)
(* holds MatrixLocs below NUM_KEYS, as MatrixLoc::new makes them.          *)
from_update(left, right) ==
    [i \in 1..NUM_KEYS * NUM_HANDS |->
        \/ \E j \in 1..Len(left) : left[j] = i - 1
        \/ \E j \in 1..Len(right) : right[j] + NUM_KEYS = i - 1]

RECURSIVE BitOr(_, _)
BitOr(a, b) ==
    IF a = 0 THEN b
    ELSE IF b = 0 THEN a
    ELSE 2 * BitOr(a \div 2, b \div 2) + (IF a % 2 = 1 \/ b % 2 = 1 THEN 1 ELSE 0)

(* Mutant of PushCode: a full vector gives up its oldest code. *)
PushCodeLatest(code_vec, c) ==
    IF Len(code_vec) < 6 THEN Append(code_vec, c) ELSE Append(Tail(code_vec), c)

(* key_map.rs 147: let _ = code_vec.push(c), on a heapless::Vec<u8, 6> *)
PushCode(code_vec, c) ==
    IF Len(code_vec) < 6 THEN Append(code_vec, c) ELSE code_vec

(* key_map.rs 152-160 *)
KeyboardReport(code_vec, modifier) ==
    [keycodes |-> [i \in 1..6 |-> IF i <= Len(code_vec) THEN code_vec[i] ELSE 0],
     leds |-> 0,
     modifier |-> modifier,
     reserved |-> 0]

(* key_map.rs 140-150: the loop over the places of the state *)
RECURSIVE ReportFrom(_, _, _, _, _)
ReportFrom(state, matrix, i, code_vec, modifier) ==
    IF i > Len(state) THEN KeyboardReport(code_vec, modifier)
    ELSE IF ~state[i] \/ matrix[i] = KEY_NONE
         THEN ReportFrom(state, matrix, i + 1, code_vec, modifier)
    ELSE IF matrix[i].kind = "Mod"
         THEN ReportFrom(state, matrix, i + 1, code_vec, BitOr(modifier, matrix[i].v))
    ELSE ReportFrom(state, matrix, i + 1, PushCode(code_vec, matrix[i].v), modifier)

(* BasicKeymap::get_report *)
get_report(state) ==
    ReportFrom(state, IF state[R(31) + 1] THEN NAV_MATRIX ELSE KEY_MATRIX, 1, <<>>, 0)

(* Mutant of HandOf: the strap levels are read the other way round. *)
HandOfInverse(level) == IF level = "Low" THEN "Right" ELSE "Left"

(* main.rs 99-103 *)
HandOf(level) == IF level = "Low" THEN "Left" ELSE "Right"

(* Mutant of KeyHidCreated: both halves create the HID reporter. *)
KeyHidOnBoth(hand) == TRUE

(* main.rs 204-218: key_hid is Some on the left half only *)
KeyHidCreated(hand) == hand = "Left"

(* main.rs 242-258 *)
Spawned(hand) ==
    {"serial", "logger", "logger_rx", "usb", "neopixel", "key_mat"}
    \cup (IF KeyHidCreated(hand) THEN {"key_hid"} ELSE {})
    \cup (IF hand = "Left" THEN {"i2c_slave"} ELSE {"i2c_master"})

MaxPubs == 2

(* the sets of keys a scan finds pressed, as sets of MatrixLocs *)
SampleKeySets ==
    {{}, {19}, {9, 29, 30}, {1, 2, 3, 4, 5, 6, 7}, {15, 16, 30}}

(* key_matrix.rs 39-49: the columns in turn, and the rows of each *)
ScanOrder == [i \in 1..NUM_KEYS |-> MatrixLoc((i - 1) % NUM_ROWS, (i - 1) \div NUM_ROWS)]

InPressed(pressed, loc) == loc \in pressed

Scan(pressed) == SelectSeq(ScanOrder, LAMBDA loc : InPressed(pressed, loc))

(* history: a signal(update) before the next tick of the HID reporter *)
Published(pubs, update) ==
    IF "key_hid" \in tasks \/ "i2c_master" \in tasks THEN Append(pubs, update) ELSE pubs

(* KeyMatrix::run: one scan, published to the signal of this half *)
KeyMatrixRun(pressed) ==
    /\ "key_mat" \in tasks
    /\ IF this_hand = "Left"
       THEN /\ Len(pubs_left) < MaxPubs
            /\ left_signal' = Some(Scan(pressed))
            /\ pubs_left' = Published(pubs_left, Scan(pressed))
            /\ UNCHANGED <<right_signal, pubs_right>>
       ELSE /\ Len(pubs_right) < MaxPubs
            /\ right_signal' = Some(Scan(pressed))
            /\ pubs_right' = Published(pubs_right, Scan(pressed))
            /\ UNCHANGED <<left_signal, pubs_left>>
    /\ UNCHANGED <<hand_pin, this_hand, tasks, hid_left, hid_right, hid_last, i2c_last,
                   i2c_pc, i2c_taken, i2c_tx, i2c_event>>
    /\ UNCHANGED beside_kbd

(* I2cMaster::run: wait for the signal, encode, write to the bus *)
I2cWritten(buffer) == IF buffer.ok THEN Some(buffer.val) ELSE i2c_last

(* i2c.rs 34-40: the buffer of the update taken last *)
I2cBuffer(taken) ==
    cs_encode("KeyUpdate", taken[Len(taken)], CS_MAX_SIZE("KeyUpdate"))

(* i2c.rs 32-41: the signal is awaited and taken, the update encoded; on   *)
(* an encode error the loop goes back to the signal                        *)
I2cMasterRun ==
    /\ "i2c_master" \in tasks
    /\ i2c_pc = "wait"
    /\ right_signal.some
    /\ right_signal' = None
    /\ i2c_taken' = Append(i2c_taken, right_signal.v)
    /\ i2c_pc' = IF I2cBuffer(i2c_taken').ok THEN "write" ELSE "wait"
    /\ UNCHANGED <<hand_pin, this_hand, tasks, left_signal, hid_left, hid_right, hid_last,
                   i2c_last, pubs_left, pubs_right, i2c_tx, i2c_event>>
    /\ UNCHANGED beside_kbd

(* Mutant of AfterWrite: an update whose write failed is signalled again. *)
RetryAfterWrite(signal, ku, result) ==
    IF result = "Err" /\ ~signal.some THEN Some(ku) ELSE signal

(* i2c.rs 42-45: after write_async, Ok or Err, the loop goes back to the *)
(* signal, which this task has not touched                               *)
AfterWrite(signal, ku, result) == signal

(* i2c.rs 42-46: write_async completes with result *)
I2cMasterWrite(result) ==
    /\ "i2c_master" \in tasks
    /\ i2c_pc = "write"
    /\ i2c_last' = I2cWritten(I2cBuffer(i2c_taken))
    /\ i2c_tx' = Append(i2c_tx, [buffer |-> I2cBuffer(i2c_taken).val, result |-> result])
    /\ right_signal' = AfterWrite(right_signal, i2c_taken[Len(i2c_taken)], result)
    /\ i2c_pc' = "wait"
    /\ UNCHANGED <<hand_pin, this_hand, tasks, left_signal, hid_left, hid_right, hid_last,
                   pubs_left, pubs_right, i2c_taken, i2c_event>>
    /\ UNCHANGED beside_kbd

(* what the other half writes to the bus, and a write with a wrong CRC *)
I2cWrites ==
    {cs_encode("KeyUpdate", Scan(p), CS_MAX_SIZE("KeyUpdate")).val : p \in SampleKeySets}
    \cup {<<1, 19, 0>>}

(* what bus.listen(&mut buffer) returns: a Command of i2c_slave with the  *)
(* bytes it left in the buffer, or an error                               *)
I2cWriteEvents == {Ok([cmd |-> "Write", buffer |-> b]) : b \in I2cWrites}

(* the keys of the specification BusSpec, and the events of its bus: the   *)
(* writes of these keys, good and bad, and every other Command and error   *)
BusKeySets == {{19}, {9, 29, 30}}

BusWrites ==
    {cs_encode("KeyUpdate", Scan(p), CS_MAX_SIZE("KeyUpdate")).val : p \in BusKeySets}

I2cEvents ==
    {Ok([cmd |-> "Write", buffer |-> b]) : b \in BusWrites \cup {<<1, 19, 0>>, <<>>}}
    \cup {Ok([cmd |-> c, buffer |-> b]) : c \in {"WriteRead", "GeneralCall"}, b \in BusWrites}
    \cup {Ok([cmd |-> "Read", buffer |-> <<>>]), Err("Abort")}

(* I2cSlave::run on Command::Write(len) *)
I2cReceived(key_update) ==
    IF key_update.ok
    THEN /\ Len(pubs_right) < MaxPubs
         /\ right_signal' = Some(key_update.val)
         /\ pubs_right' = Published(pubs_right, key_update.val)
    ELSE UNCHANGED <<right_signal, pubs_right>>

(* Mutant of IsWrite: a WriteRead is decoded as a Write is. *)
IsWriteOrWriteRead(event) == event.ok /\ event.val.cmd \in {"Write", "WriteRead"}

(* i2c.rs 76-78: the arm of Command::Write *)
IsWrite(event) == event.ok /\ event.val.cmd = "Write"

(* I2cSlave::run: one turn of the loop, listen() having returned event *)
I2cSlaveRun(event) ==
    /\ "i2c_slave" \in tasks
    /\ i2c_event' = event
    /\ IF IsWrite(event)
       THEN I2cReceived(cs_decode("KeyUpdate", event.val.buffer))
       ELSE UNCHANGED <<right_signal, pubs_right>>
    /\ UNCHANGED <<hand_pin, this_hand, tasks, left_signal, hid_left, hid_right, hid_last,
                   i2c_last, pubs_left, i2c_pc, i2c_taken, i2c_tx>>
    /\ UNCHANGED beside_kbd

(* Mutant of TakeOrKeep: without a new update the side reads as no keys. *)
TakeOrReset(signal, latched) == IF signal.some THEN signal.v ELSE no_keys

(* key_hid.rs 63-71: if let Some(new) = signal.try_take() { latched = new } *)
TakeOrKeep(signal, latched) == IF signal.some THEN signal.v ELSE latched

(* key_hid.rs 73-78: the report of the two latched updates goes to the *)
(* writer, whose result is only logged                                 *)
WriteReport(left, right, result) ==
    hid_last' = Some([report |-> get_report(from_update(left, right)), result |-> result])

(* key_hid.rs 63-71: both signals are taken without waiting *)
KeyHidTake ==
    /\ "key_hid" \in tasks
    /\ hid_left' = TakeOrKeep(left_signal, hid_left)
    /\ hid_right' = TakeOrKeep(right_signal, hid_right)
    /\ left_signal' = None
    /\ right_signal' = None
    /\ pubs_left' = <<>>
    /\ pubs_right' = <<>>
    /\ i2c_event' = Err("none")

(* KeyboardIf::run: one turn of the loop *)
KeyHidRun(result) ==
    /\ KeyHidTake
    /\ WriteReport(hid_left', hid_right', result)
    /\ UNCHANGED <<hand_pin, this_hand, tasks, i2c_last, i2c_pc, i2c_taken, i2c_tx>>
    /\ UNCHANGED beside_kbd

(* the keyboard of a half strapped as `level`, as main leaves it *)
KbdBoot(level) ==
    /\ hand_pin = level
    /\ this_hand = HandOf(level)
    /\ tasks = Spawned(HandOf(level))
    /\ left_signal = None
    /\ right_signal = None
    /\ hid_left = no_keys
    /\ hid_right = no_keys
    /\ hid_last = None
    /\ i2c_last = None
    /\ pubs_left = <<>>
    /\ pubs_right = <<>>
    /\ i2c_pc = "wait"
    /\ i2c_taken = <<>>
    /\ i2c_tx = <<>>
    /\ i2c_event = Err("none")

(* the keyboard is left out: no task of it is spawned *)
KbdIdle ==
    /\ hand_pin = "Low"
    /\ this_hand = "Left"
    /\ tasks = {}
    /\ left_signal = None
    /\ right_signal = None
    /\ hid_left = no_keys
    /\ hid_right = no_keys
    /\ hid_last = None
    /\ i2c_last = None
    /\ pubs_left = <<>>
    /\ pubs_right = <<>>
    /\ i2c_pc = "wait"
    /\ i2c_taken = <<>>
    /\ i2c_tx = <<>>
    /\ i2c_event = Err("none")

(***************************************************************************)
(* KeyMatrix::run followed pin by pin (key_matrix.rs 34-56): a step for    *)
(* each pin operation and each await.                                      *)
(***************************************************************************)
MaxScans == 1

(* the sets of row pins a sample may find high *)
RowReadings == {{}, {0, 4}, 0..(NUM_ROWS - 1)}

(* key_matrix.rs 45: let _ = code_vec.push(..), on a Vec<MatrixLoc, NUM_KEYS> *)
PushLoc(vec, loc) == IF Len(vec) < NUM_KEYS THEN Append(vec, loc) ELSE vec

(* key_matrix.rs 42-47: the rows in turn, from row on *)
RECURSIVE PushRows(_, _, _, _)
PushRows(vec, rows, col, row) ==
    IF row = NUM_ROWS THEN vec
    ELSE PushRows(IF row \in rows THEN PushLoc(vec, MatrixLoc(row, col)) ELSE vec,
                  rows, col, row + 1)

(* the signal of this half, and what it was signalled with *)
MySignal == IF this_hand = "Left" THEN left_signal ELSE right_signal

MyPubs == IF this_hand = "Left" THEN pubs_left ELSE pubs_right

scan_kept == <<hand_pin, this_hand, tasks, hid_left, hid_right, hid_last, i2c_last,
               i2c_pc, i2c_taken, i2c_tx, i2c_event>>

(* key_matrix.rs 35-37: the top of the loop *)
ScanBegin ==
    /\ "key_mat" \in tasks
    /\ scan_pc = "start"
    /\ Len(MyPubs) < MaxScans
    /\ scan_vec' = <<>>
    /\ scan_col' = 0
    /\ scan_pc' = "high"
    /\ UNCHANGED <<col_high, scan_rows, left_signal, right_signal, pubs_left, pubs_right>>
    /\ UNCHANGED scan_kept
    /\ UNCHANGED beside_scan

(* key_matrix.rs 40-41: col_pin.set_high(), then the timer is awaited *)
ScanSetHigh ==
    /\ scan_pc = "high"
    /\ col_high' = col_high \cup {scan_col}
    /\ scan_pc' = "settle"
    /\ UNCHANGED <<scan_col, scan_vec, scan_rows, left_signal, right_signal, pubs_left,
                   pubs_right>>
    /\ UNCHANGED scan_kept
    /\ UNCHANGED beside_scan

(* key_matrix.rs 42-47: after the 20 us the row pins are read in turn *)
ScanRows(rows) ==
    /\ scan_pc = "settle"
    /\ scan_rows' = rows
    /\ scan_vec' = PushRows(scan_vec, rows, scan_col, 0)
    /\ scan_pc' = "low"
    /\ UNCHANGED <<scan_col, col_high, left_signal, right_signal, pubs_left, pubs_right>>
    /\ UNCHANGED scan_kept
    /\ UNCHANGED beside_scan

(* Mutant of ColLow: a column stays high once it was driven high. *)
ColStaysHigh(high, col) == high

(* key_matrix.rs 48: col_pin.set_low() *)
ColLow(high, col) == high \ {col}

(* key_matrix.rs 48-49: the column is driven low and the loop goes on *)
ScanSetLow ==
    /\ scan_pc = "low"
    /\ col_high' = ColLow(col_high, scan_col)
    /\ IF scan_col + 1 < NUM_COLS
       THEN scan_col' = scan_col + 1 /\ scan_pc' = "high"
       ELSE scan_col' = scan_col /\ scan_pc' = "publish"
    /\ UNCHANGED <<scan_vec, scan_rows, left_signal, right_signal, pubs_left, pubs_right>>
    /\ UNCHANGED scan_kept
    /\ UNCHANGED beside_scan

(* key_matrix.rs 51-54: the update is signalled and the tick awaited *)
ScanPublish ==
    /\ scan_pc = "publish"
    /\ IF this_hand = "Left"
       THEN /\ left_signal' = Some(scan_vec)
            /\ pubs_left' = Published(pubs_left, scan_vec)
            /\ UNCHANGED <<right_signal, pubs_right>>
       ELSE /\ right_signal' = Some(scan_vec)
            /\ pubs_right' = Published(pubs_right, scan_vec)
            /\ UNCHANGED <<left_signal, pubs_left>>
    /\ scan_pc' = "sleep"
    /\ UNCHANGED <<scan_col, col_high, scan_vec, scan_rows>>
    /\ UNCHANGED scan_kept
    /\ UNCHANGED beside_scan

(* key_matrix.rs 54: the tick is over *)
ScanWake ==
    /\ scan_pc = "sleep"
    /\ scan_pc' = "start"
    /\ UNCHANGED <<scan_col, col_high, scan_vec, scan_rows, left_signal, right_signal,
                   pubs_left, pubs_right>>
    /\ UNCHANGED scan_kept
    /\ UNCHANGED beside_scan

(* KeyMatrix::new, key_matrix.rs 23-24: every column pin is an output at *)
(* Level::Low                                                            *)
ScanBoot ==
    /\ scan_pc = "start"
    /\ scan_col = 0
    /\ col_high = {}
    /\ scan_vec = <<>>
    /\ scan_rows = {}

(***************************************************************************)
(* The deferred logger (firmware/src/logging.rs): the producers' acquire,  *)
(* write and release, and the drain task.  A critical section is held from *)
(* acquire to release, so the drain task takes no step while TAKEN.        *)
(***************************************************************************)
LOG_CAPACITY == 10 * MAX_PACKET_SIZE

MaxLogWrites == 4

(* the lengths of the slices do_write is called with *)
ChunkSizes == {1, 63, 320}

(* the n bytes produced after the first a *)
Ordinals(a, n) == [i \in 1..n |-> a + i]

(* CircularBuffer::extend_from_slice on the log ring *)
LogExtend(buf, slice) ==
    IF Len(buf) + Len(slice) > LOG_CAPACITY
    THEN SubSeq(buf \o slice, Len(buf) + Len(slice) - LOG_CAPACITY + 1, Len(buf) + Len(slice))
    ELSE buf \o slice

(* do_write and flush: the slice goes into the ring, the signal is set when *)
(* the ring holds something                                                 *)
do_write(n) ==
    /\ log_writes < MaxLogWrites
    /\ log_buf' = LogExtend(log_buf, Ordinals(log_count, n))
    /\ log_sig' = (log_sig \/ Len(LogExtend(log_buf, Ordinals(log_count, n))) > 0)
    /\ log_count' = log_count + n
    /\ log_writes' = log_writes + 1
    /\ log_lost' = (log_lost \/ Len(log_buf) + n > LOG_CAPACITY)

(* Mutant of Reentrant: acquire does not look at the lock. *)
ReentrantNever(taken) == FALSE

(* logging.rs 42: TAKEN.load(Ordering::Acquire) *)
Reentrant(taken) == taken

(* Logger::acquire: panics when the logger is taken, else takes it and *)
(* starts a frame (which writes nothing)                               *)
LogAcquire ==
    /\ ~log_panic
    /\ log_depth' = log_depth + 1
    /\ IF Reentrant(TAKEN)
       THEN log_panic' = TRUE /\ UNCHANGED TAKEN
       ELSE TAKEN' = TRUE /\ UNCHANGED log_panic
    /\ UNCHANGED <<log_buf, log_sig, log_pc, log_send, log_zlp, log_tx, log_count,
                   log_writes, log_lost, log_left>>
    /\ UNCHANGED beside_log

(* Logger::write: the encoder hands a slice to do_write *)
LogWrite(n) ==
    /\ ~log_panic
    /\ TAKEN
    /\ do_write(n)
    /\ UNCHANGED <<TAKEN, log_pc, log_send, log_zlp, log_tx, log_left, log_depth, log_panic>>
    /\ UNCHANGED beside_log

(* Logger::release: the end of the frame goes to do_write, the lock and the *)
(* critical section are given up                                            *)
LogRelease(n) ==
    /\ ~log_panic
    /\ TAKEN
    /\ do_write(n)
    /\ TAKEN' = FALSE
    /\ log_depth' = log_depth - 1
    /\ UNCHANGED <<log_pc, log_send, log_zlp, log_tx, log_left, log_panic>>
    /\ UNCHANGED beside_log

(* Logger::flush, logging.rs 56-59 and 93-95: called between acquire and *)
(* release, it sets the signal whatever the ring holds                   *)
LogFlush ==
    /\ ~log_panic
    /\ TAKEN
    /\ log_sig' = TRUE
    /\ UNCHANGED <<TAKEN, log_buf, log_pc, log_send, log_zlp, log_tx, log_count, log_writes,
                   log_lost, log_left, log_depth, log_panic>>
    /\ UNCHANGED beside_log

(* logging.rs 110: GLOBAL_COMS.sig.wait() returns and resets the signal *)
DrainWake ==
    /\ ~log_panic /\ ~TAKEN
    /\ log_pc = "wait"
    /\ log_sig
    /\ log_sig' = FALSE
    /\ log_pc' = "woken"
    /\ UNCHANGED <<TAKEN, log_buf, log_send, log_zlp, log_tx, log_count, log_writes,
                   log_lost, log_left, log_depth, log_panic>>
    /\ UNCHANGED beside_log

(* logging.rs 114 *)
TakeCount(len) == IF len < MAX_PACKET_SIZE THEN len ELSE MAX_PACKET_SIZE

(* Mutant of DrainFront: the newest bytes are sent first. *)
DrainBack(buf, take_count) == SubSeq(buf, Len(buf) - take_count + 1, Len(buf))

(* logging.rs 116-118: buf.drain(..take_count) into send_buf *)
DrainFront(buf, take_count) == SubSeq(buf, 1, take_count)

(* Mutant of NeedsZlp: no zero-length packet is ever sent. *)
NeedsZlpNever(is_all, send_len, is_empty) == FALSE

(* logging.rs 126 *)
NeedsZlp(is_all, send_len, is_empty) == is_all /\ send_len = MAX_PACKET_SIZE /\ is_empty

(* logging.rs 112-120: under the lock, up to one packet leaves the ring *)
DrainTake ==
    /\ ~log_panic /\ ~TAKEN
    /\ log_pc = "woken"
    /\ log_send' = DrainFront(log_buf, TakeCount(Len(log_buf)))
    /\ log_buf' = SubSeq(log_buf, TakeCount(Len(log_buf)) + 1, Len(log_buf))
    /\ log_left' = Len(log_buf) - TakeCount(Len(log_buf))
    /\ log_zlp' = NeedsZlp(TakeCount(Len(log_buf)) = Len(log_buf), TakeCount(Len(log_buf)),
                           Len(log_buf) - TakeCount(Len(log_buf)) = 0)
    /\ log_pc' = "write"
    /\ UNCHANGED <<TAKEN, log_sig, log_tx, log_count, log_writes, log_lost, log_depth,
                   log_panic>>
    /\ UNCHANGED beside_log

(* logging.rs 123: write_packet(&send_buf[..send_len]), its result dropped *)
DrainWrite(result) ==
    /\ ~log_panic /\ ~TAKEN
    /\ log_pc = "write"
    /\ log_tx' = Append(log_tx, [bytes |-> log_send, result |-> result])
    /\ log_pc' = IF log_zlp THEN "zlp" ELSE "wait"
    /\ UNCHANGED <<TAKEN, log_buf, log_sig, log_send, log_zlp, log_count, log_writes,
                   log_lost, log_left, log_depth, log_panic>>
    /\ UNCHANGED beside_log

(* logging.rs 126-129: write_packet(&[]), its result dropped *)
DrainZlp(result) ==
    /\ ~log_panic /\ ~TAKEN
    /\ log_pc = "zlp"
    /\ log_tx' = Append(log_tx, [bytes |-> <<>>, result |-> result])
    /\ log_pc' = "wait"
    /\ UNCHANGED <<TAKEN, log_buf, log_sig, log_send, log_zlp, log_count, log_writes,
                   log_lost, log_left, log_depth, log_panic>>
    /\ UNCHANGED beside_log

(* the statics of logging.rs, and the drain task at its first wait *)
LogInit ==
    /\ TAKEN = FALSE
    /\ log_buf = <<>>
    /\ log_sig = FALSE
    /\ log_pc = "wait"
    /\ log_send = <<>>
    /\ log_zlp = FALSE
    /\ log_tx = <<>>
    /\ log_count = 0
    /\ log_writes = 0
    /\ log_lost = FALSE
    /\ log_left = 0
    /\ log_depth = 0
    /\ log_panic = FALSE

(***************************************************************************)
(* The firmware session (firmware/src/dfu.rs): callers that lock the       *)
(* FirmwareIntf and use the FirmwareSession, the channel, and the          *)
(* FirmwareRecvr.  A send on a full channel waits: the action that sends   *)
(* is enabled once there is room.                                          *)
(***************************************************************************)
FLASH_WRITE_BLOCK == 4 * 1024

FW_CHANNEL_DEPTH == 4

Callers == {1, 2}

MaxFwCalls == 3

FwOffsets == {0, FLASH_WRITE_BLOCK}

(* the 8 bytes a caller writes *)
FwChunks == {<<1, 2, 3, 4, 5, 6, 7, 8>>}

(* FirmwareCmd; a block's AlignedBuffer is the session's data and the zeros *)
(* that fill it up to FLASH_WRITE_BLOCK                                      *)
FwBegin == [cmd |-> "Begin"]

FwFinish == [cmd |-> "Finish"]

FirmwareBlock(data, offset) ==
    [cmd |-> "Block", data |-> data, zeros |-> FLASH_WRITE_BLOCK - Len(data),
     offset |-> offset]

HasRoom == Len(fw_chan) < FW_CHANNEL_DEPTH

(* Sender::send, once the channel has room *)
Send(c, message) ==
    /\ HasRoom
    /\ fw_chan' = Append(fw_chan, message)
    /\ fw_sent' = Append(fw_sent, [from |-> c, message |-> message])

(* Mutant of MutexFree: the lock is handed out whoever holds it. *)
MutexFreeAlways(guard) == TRUE

(* Mutex::lock completes when no guard is alive *)
MutexFree(guard) == guard = 0

(* a call on the session of caller c *)
InSession(c) == fw_pc[c] = "held" /\ fw_calls[c] < MaxFwCalls

Called(c) == fw_calls' = [fw_calls EXCEPT ![c] = @ + 1]

(* FirmwareIntf::lock up to the await *)
LockCall(c) ==
    /\ fw_pc[c] = "idle"
    /\ fw_pc' = [fw_pc EXCEPT ![c] = "lock"]
    /\ UNCHANGED <<fw_guard, fw_offset, fw_data, fw_calls, fw_chan, fw_sent, fw_state,
                   fw_flash>>
    /\ UNCHANGED beside_fw

(* FirmwareIntf::lock from the await on: the guard and a fresh session *)
LockDone(c, initial_offset) ==
    /\ fw_pc[c] = "lock"
    /\ MutexFree(fw_guard)
    /\ fw_guard' = c
    /\ fw_pc' = [fw_pc EXCEPT ![c] = "held"]
    /\ fw_offset' = [fw_offset EXCEPT ![c] = initial_offset]
    /\ fw_data' = [fw_data EXCEPT ![c] = <<>>]
    /\ UNCHANGED <<fw_calls, fw_chan, fw_sent, fw_state, fw_flash>>
    /\ UNCHANGED beside_fw

(* FirmwareSession::begin *)
SessionBegin(c) ==
    /\ InSession(c)
    /\ Send(c, FwBegin)
    /\ Called(c)
    /\ UNCHANGED <<fw_guard, fw_pc, fw_offset, fw_data, fw_state, fw_flash>>
    /\ UNCHANGED beside_fw

(* FirmwareSession::write_block *)
write_block(c) ==
    /\ Send(c, FirmwareBlock(fw_data[c], fw_offset[c]))
    /\ fw_offset' = [fw_offset EXCEPT ![c] = @ + FLASH_WRITE_BLOCK]

(* FirmwareSession::write *)
SessionWrite(c, data) ==
    /\ InSession(c)
    /\ IF Len(fw_data[c]) = FLASH_WRITE_BLOCK
       THEN /\ write_block(c)
            /\ fw_data' = [fw_data EXCEPT ![c] = data]
       ELSE /\ fw_data' = [fw_data EXCEPT ![c] = @ \o data]
            /\ UNCHANGED <<fw_chan, fw_sent, fw_offset>>
    /\ Called(c)
    /\ UNCHANGED <<fw_guard, fw_pc, fw_state, fw_flash>>
    /\ UNCHANGED beside_fw

(* FirmwareSession::set_offset *)
SessionSetOffset(c, offset) ==
    /\ InSession(c)
    /\ IF fw_data[c] # <<>>
       THEN /\ Send(c, FirmwareBlock(fw_data[c], fw_offset[c]))
            /\ fw_data' = [fw_data EXCEPT ![c] = <<>>]
       ELSE UNCHANGED <<fw_chan, fw_sent, fw_data>>
    /\ fw_offset' = [fw_offset EXCEPT ![c] = offset]
    /\ Called(c)
    /\ UNCHANGED <<fw_guard, fw_pc, fw_state, fw_flash>>
    /\ UNCHANGED beside_fw

(* FirmwareSession::finish up to the send of Finish *)
SessionFinish(c) ==
    /\ InSession(c)
    /\ IF fw_data[c] # <<>>
       THEN /\ write_block(c)
            /\ fw_data' = [fw_data EXCEPT ![c] = <<>>]
       ELSE UNCHANGED <<fw_chan, fw_sent, fw_offset, fw_data>>
    /\ fw_pc' = [fw_pc EXCEPT ![c] = "finish"]
    /\ Called(c)
    /\ UNCHANGED <<fw_guard, fw_state, fw_flash>>
    /\ UNCHANGED beside_fw

(* FirmwareSession::finish: the send of Finish *)
SessionFinished(c) ==
    /\ fw_pc[c] = "finish"
    /\ Send(c, FwFinish)
    /\ fw_pc' = [fw_pc EXCEPT ![c] = "held"]
    /\ UNCHANGED <<fw_guard, fw_offset, fw_data, fw_calls, fw_state, fw_flash>>
    /\ UNCHANGED beside_fw

(* the session goes out of scope: its MutexGuard is dropped *)
SessionDrop(c) ==
    /\ fw_pc[c] = "held"
    /\ fw_guard' = (IF fw_guard = c THEN 0 ELSE fw_guard)
    /\ fw_pc' = [fw_pc EXCEPT ![c] = "gone"]
    /\ UNCHANGED <<fw_offset, fw_data, fw_calls, fw_chan, fw_sent, fw_state, fw_flash>>
    /\ UNCHANGED beside_fw

(* Mutant of RecvrStep: a Block received while idle is written too. *)
RecvrStepEager(message, result) ==
    CASE fw_state = "idle" /\ message.cmd = "Begin" ->
             /\ fw_state' = (IF result = "Ok" THEN "updating" ELSE "parked")
             /\ UNCHANGED fw_flash
      [] fw_state = "idle" /\ message.cmd = "Finish" ->
             UNCHANGED <<fw_state, fw_flash>>
      [] fw_state = "idle" /\ message.cmd = "Block" ->
             /\ fw_flash' = Append(fw_flash, message)
             /\ UNCHANGED fw_state
      [] fw_state = "updating" /\ message.cmd = "Begin" ->
             UNCHANGED <<fw_state, fw_flash>>
      [] fw_state = "updating" /\ message.cmd = "Block" ->
             /\ fw_state' = (IF result = "Ok" THEN "updating" ELSE "parked")
             /\ fw_flash' = Append(fw_flash, message)
      [] fw_state = "updating" /\ message.cmd = "Finish" ->
             /\ fw_state' = (IF result = "Ok" THEN "idle" ELSE "parked")
             /\ UNCHANGED fw_flash

(* FirmwareRecvr::run, dfu.rs 155-178: what one received message does; *)
(* async_unwrap! parks the task when the updater returns an error      *)
RecvrStep(message, result) ==
    CASE fw_state = "idle" /\ message.cmd = "Begin" ->
             /\ fw_state' = (IF result = "Ok" THEN "updating" ELSE "parked")
             /\ UNCHANGED fw_flash
      [] fw_state = "idle" /\ message.cmd # "Begin" ->
             UNCHANGED <<fw_state, fw_flash>>
      [] fw_state = "updating" /\ message.cmd = "Begin" ->
             UNCHANGED <<fw_state, fw_flash>>
      [] fw_state = "updating" /\ message.cmd = "Block" ->
             /\ fw_state' = (IF result = "Ok" THEN "updating" ELSE "parked")
             /\ fw_flash' = Append(fw_flash, message)
      [] fw_state = "updating" /\ message.cmd = "Finish" ->
             /\ fw_state' = (IF result = "Ok" THEN "idle" ELSE "parked")
             /\ UNCHANGED fw_flash

(* FirmwareRecvr::run: cmd_recv.receive() and the arm taken *)
RecvrRun(result) ==
    /\ fw_state # "parked"
    /\ fw_chan # <<>>
    /\ fw_chan' = Tail(fw_chan)
    /\ RecvrStep(Head(fw_chan), result)
    /\ UNCHANGED <<fw_guard, fw_pc, fw_offset, fw_data, fw_calls, fw_sent>>
    /\ UNCHANGED beside_fw

(* FirmwareState::new and get_intf: an empty channel, an unlocked mutex *)
FwInit ==
    /\ fw_guard = 0
    /\ fw_pc = [c \in Callers |-> "idle"]
    /\ fw_offset = [c \in Callers |-> 0]
    /\ fw_data = [c \in Callers |-> <<>>]
    /\ fw_calls = [c \in Callers |-> 0]
    /\ fw_chan = <<>>
    /\ fw_sent = <<>>
    /\ fw_state = "idle"
    /\ fw_flash = <<>>

(* the matrix scan is not followed pin by pin *)
ScanIdle ==
    /\ scan_pc = "idle"
    /\ scan_col = 0
    /\ col_high = {}
    /\ scan_vec = <<>>
    /\ scan_rows = {}

(* no USB error has happened on the primary endpoint *)
UsbIdle == usb_err = "none"

(* the host runs no echo *)
HostIdle ==
    /\ host_pc = "idle"
    /\ host_msg = <<>>
    /\ host_sent = 0
    /\ host_pos = 0
    /\ host_count = 0
    /\ host_i = 0
    /\ host_content = <<>>
    /\ host_result = None

(* the analyzer does not run *)
Uf2Idle ==
    /\ uf2_blocks = <<>>
    /\ uf2_pc = "idle"
    /\ uf2_idx = 0
    /\ uf2_bounds = None
    /\ uf2_out = <<>>

(* no critical section is active and no record was logged *)
RecIdle ==
    /\ cs_held = FALSE
    /\ CS_RESTORE = FALSE
    /\ cs_outer = FALSE
    /\ rec_start = 0
    /\ rec_done = 0

RestIdle == ScanIdle /\ UsbIdle /\ HostIdle /\ Uf2Idle /\ RecIdle

ServerInit ==
    /\ wire = <<>>
    /\ hist = <<>>
    /\ coms_buf = <<>>
    /\ lost_bytes = FALSE
    /\ pc = "idle"
    /\ iters = 0
    /\ pending = "none"
    /\ tx = <<>>
    /\ returns = <<>>
    /\ echo_at = 0
    /\ echo_tx = 0
    /\ initiate_shutdown = FALSE
    /\ usb_shutdown = FALSE
    /\ usb_pc = "run"
    /\ usb_enabled = TRUE
    /\ reset = "none"

(* no codec run is under way *)
CodecIdle ==
    /\ ty = "Command"
    /\ x = Reset
    /\ framing = "none"
    /\ frame = Err("none")
    /\ tampered = FALSE
    /\ flipped = FALSE
    /\ decoder = "none"
    /\ decoded = Err("none")

Init == ServerInit /\ CodecIdle /\ KbdIdle /\ LogInit /\ FwInit /\ RestIdle

Next ==
    \/ \E item \in HostItems : HostSend(item)
    \/ \E count \in 1..MAX_PACKET_SIZE : RecvPacket(count)
    \/ OnRecvError
    \/ OnReset
    \/ OnEchoMsg
    \/ OnData
    \/ EchoStep
    \/ TriggerReset
    \/ UsbSeesShutdown
    \/ UsbDisable
    \/ UsbSignalDone

Spec == Init /\ [][Next]_vars

(***************************************************************************)
(* Specification ShutdownSpec: the command server and the USB task from    *)
(* the moment main has spawned them (main.rs 242-245), the USB task not    *)
(* yet polled, and scheduled fairly: the executor polls a task that can    *)
(* go on, usb.disable() completes.  The host sends what and when it likes. *)
(***************************************************************************)
(* main.rs 284, the first poll of usb_task: the receiver is made and the  *)
(* select is reached; its Receiver::get is ready when the Watch holds a   *)
(* value, whenever that was sent (UsbSeesShutdown)                        *)
UsbFirstPoll ==
    /\ usb_pc = "spawned"
    /\ usb_pc' = "run"
    /\ UNCHANGED beside_server
    /\ UNCHANGED <<wire, hist, coms_buf, lost_bytes, pc, iters, pending, tx, returns,
                   echo_at, echo_tx, initiate_shutdown, usb_shutdown, usb_enabled, reset>>

ServerSpawned ==
    /\ wire = <<>>
    /\ hist = <<>>
    /\ coms_buf = <<>>
    /\ lost_bytes = FALSE
    /\ pc = "idle"
    /\ iters = 0
    /\ pending = "none"
    /\ tx = <<>>
    /\ returns = <<>>
    /\ echo_at = 0
    /\ echo_tx = 0
    /\ initiate_shutdown = FALSE
    /\ usb_shutdown = FALSE
    /\ usb_pc = "spawned"
    /\ usb_enabled = TRUE
    /\ reset = "none"

ShutdownInit == ServerSpawned /\ CodecIdle /\ KbdIdle /\ LogInit /\ FwInit /\ RestIdle

(* what the host sends: the two commands that shut down, an announce, a *)
(* Data command, a frame that does not decode                          *)
ShutdownItems ==
    {[kind |-> "cmd", cmd |-> c, bytes |-> send_command("Command", c)] :
         c \in {Reset, UsbDfu, EchoMsg(9), Data(<<1, 2, 3, 4, 5, 6, 7, 8>>)}}
    \cup {[kind |-> "bad", bytes |-> <<5, 1, 0>>]}

ShutdownNext ==
    \/ \E item \in ShutdownItems : HostSend(item)
    \/ \E count \in 1..MAX_PACKET_SIZE : RecvPacket(count)
    \/ OnRecvError
    \/ OnReset
    \/ OnEchoMsg
    \/ OnData
    \/ EchoStep
    \/ TriggerReset
    \/ UsbFirstPoll
    \/ UsbSeesShutdown
    \/ UsbDisable
    \/ UsbSignalDone

ShutdownFairness ==
    /\ WF_vars(UsbFirstPoll)
    /\ WF_vars(UsbSeesShutdown)
    /\ WF_vars(UsbDisable)
    /\ WF_vars(UsbSignalDone)
    /\ WF_vars(TriggerReset)

ShutdownSpec == ShutdownInit /\ [][ShutdownNext]_vars /\ ShutdownFairness

(***************************************************************************)
(* Specification FlashSpec: the host of cli/src/main.rs flash_fw, which    *)
(* announces a firmware upload and streams Data commands, before the       *)
(* command server of serial.rs.  Command in proto/src/lib.rs has no        *)
(* FlashFw variant: the announce is written as the host would encode it,   *)
(* with the variant in the place the specification lists it (after UsbDfu) *)
(* or after the four variants of lib.rs.                                   *)
(***************************************************************************)
FlashFwTags == {2, 4}

FlashCounts == {8, 9}

(* send_command(&Command::FlashFw { count }) *)
FlashFwFrame(tag, count) ==
    Append(cobs_encode(HostPushCrc(<<tag>> \o varint(count))), 0)

FlashItems ==
    {[kind |-> "flash", count |-> n, bytes |-> FlashFwFrame(t, n)] :
         t \in FlashFwTags, n \in FlashCounts}
    \cup {[kind |-> "cmd", cmd |-> Data(d), bytes |-> send_command("Command", Data(d))] :
              d \in DataSet}

FlashNext ==
    \/ \E item \in FlashItems : HostSend(item)
    \/ \E count \in 1..MAX_PACKET_SIZE : RecvPacket(count)
    \/ OnRecvError
    \/ OnEchoMsg
    \/ OnData
    \/ EchoStep

FlashSpec == Init /\ [][FlashNext]_vars

(***************************************************************************)
(* The host utility's echo, cli/src/main.rs send_echo, run against the     *)
(* command server over the serial link.                                    *)
(***************************************************************************)
(* what the echo leaves alone, but for the variables of the link *)
beside_host == <<codec_vars, kbd_vars, log_vars, fw_vars, scan_vars, usb_vars, uf2_vars,
                 rec_vars>>

(* the item of the host's announce of n bytes *)
EchoItem(n) ==
    [kind |-> "cmd", cmd |-> EchoMsg(n), bytes |-> send_command("Command", EchoMsg(n))]

(* the messages given on the command line *)
EchoMessages ==
    {<<>>, <<7, 0>>, <<1, 2, 3, 4, 5, 6, 7, 8>>, <<65, 66, 67, 68, 69, 70, 71, 72, 73>>}

(* the announce of an earlier run of the utility that ended before its *)
(* first chunk                                                         *)
StaleCount == 2 * DATA_COUNT

Min(a, b) == IF a < b THEN a ELSE b

(* main.rs 237-239: chunk idx of content.chunks(DATA_COUNT), copied into a *)
(* zeroed array                                                            *)
Chunk(content, idx) ==
    [k \in 1..DATA_COUNT |->
        IF idx * DATA_COUNT + k <= Len(content) THEN content[idx * DATA_COUNT + k] ELSE 0]

(* the number of chunks of content.chunks(DATA_COUNT) *)
NumChunks(content) == (Len(content) + DATA_COUNT - 1) \div DATA_COUNT

(* the bytes the device has written to the endpoint, as the port gives them *)
RECURSIVE Concat(_)
Concat(packets) == IF packets = <<>> THEN <<>> ELSE Head(packets) \o Concat(Tail(packets))

(* what the port still holds for the host *)
PortRest == SubSeq(Concat(tx), host_pos + 1, Len(Concat(tx)))

(* the host writes the frame of command to the port *)
PortWrite(command) ==
    /\ wire' = wire \o send_command("Command", command)
    /\ hist' = Append(hist, [kind |-> "cmd", cmd |-> command,
                             bytes |-> send_command("Command", command)])

(* main.rs 232-235 *)
EchoSendCmd ==
    /\ host_pc = "send_cmd"
    /\ PortWrite(EchoMsg(Len(host_msg)))
    /\ host_pc' = IF NumChunks(host_msg) = 0 THEN "recv_hdr" ELSE "send_data"
    /\ UNCHANGED <<host_msg, host_sent, host_pos, host_count, host_i, host_content,
                   host_result>>
    /\ UNCHANGED <<coms_buf, lost_bytes, pc, iters, pending, tx, returns, echo_at, echo_tx,
                   initiate_shutdown, usb_shutdown, usb_pc, usb_enabled, reset>>
    /\ UNCHANGED beside_host

(* main.rs 237-242: one iteration *)
EchoSendData ==
    /\ host_pc = "send_data"
    /\ PortWrite(Data(Chunk(host_msg, host_sent)))
    /\ host_sent' = host_sent + 1
    /\ host_pc' = IF host_sent' = NumChunks(host_msg) THEN "recv_hdr" ELSE "send_data"
    /\ UNCHANGED <<host_msg, host_pos, host_count, host_i, host_content, host_result>>
    /\ UNCHANGED <<coms_buf, lost_bytes, pc, iters, pending, tx, returns, echo_at, echo_tx,
                   initiate_shutdown, usb_shutdown, usb_pc, usb_enabled, reset>>
    /\ UNCHANGED beside_host

(* the echo prints what it received and returns *)
EchoReceived(content) ==
    /\ host_pc' = "done"
    /\ host_result' = Some(Ok(content))

(* bail!: the echo returns the error, nothing is printed *)
EchoBails(text) ==
    /\ host_pc' = "failed"
    /\ host_result' = Some(Err(text))

(* main.rs 244-250 and 263 when the loop has no iteration: the response read *)
(* from the port once it holds a delimiter                                   *)
EchoRecvHdr ==
    /\ host_pc = "recv_hdr"
    /\ FirstZero(PortRest) # 0
    /\ host_pos' = host_pos + FirstZero(PortRest)
    /\ LET resp == recv_response("Response", PortRest) IN
       IF ~resp.ok
       THEN EchoBails("Receiving EchoMsg response") /\ UNCHANGED host_count
       ELSE IF resp.val.tag = "EchoMsg"
       THEN /\ host_count' = resp.val.count
            /\ IF resp.val.count > 0
               THEN host_pc' = "recv_data" /\ UNCHANGED host_result
               ELSE EchoReceived(host_content)
       ELSE IF resp.val.tag = "Nack"
       THEN EchoBails("Received nack waiting for EchoMsg") /\ UNCHANGED host_count
       ELSE EchoBails("Unexpected response, expecting EchoMsg") /\ UNCHANGED host_count
    /\ UNCHANGED <<host_msg, host_sent, host_i, host_content>>
    /\ UNCHANGED server_vars
    /\ UNCHANGED beside_host

(* Mutant of CopyCount: the whole chunk is copied. *)
CopyWholeChunk(resp_count, i) == DATA_COUNT

(* main.rs 259 *)
CopyCount(resp_count, i) == Min(DATA_COUNT, resp_count - i)

(* main.rs 253-263: one iteration, and the print after the last *)
EchoRecvData ==
    /\ host_pc = "recv_data"
    /\ FirstZero(PortRest) # 0
    /\ host_pos' = host_pos + FirstZero(PortRest)
    /\ LET resp == recv_response("Response", PortRest) IN
       IF ~resp.ok
       THEN EchoBails("Error receiving response") /\ UNCHANGED <<host_i, host_content>>
       ELSE IF resp.val.tag = "Data"
       THEN /\ host_content' =
                   host_content \o SubSeq(resp.val.data, 1, CopyCount(host_count, host_i))
            /\ host_i' = host_i + DATA_COUNT
            /\ IF host_i' < host_count
               THEN host_pc' = "recv_data" /\ UNCHANGED host_result
               ELSE EchoReceived(host_content')
       ELSE IF resp.val.tag = "Nack"
       THEN EchoBails("Received nack waiting for Data") /\ UNCHANGED <<host_i, host_content>>
       ELSE EchoBails("Unexpected response, expecting Data")
            /\ UNCHANGED <<host_i, host_content>>
    /\ UNCHANGED <<host_msg, host_sent, host_count>>
    /\ UNCHANGED server_vars
    /\ UNCHANGED beside_host

(* the echo starts with the message msg, the port open *)
EchoBoot(msg, pos) ==
    /\ host_pc = "send_cmd"
    /\ host_msg = msg
    /\ host_sent = 0
    /\ host_pos = pos
    /\ host_count = 0
    /\ host_i = 0
    /\ host_content = <<>>
    /\ host_result = None

(* the device in the session of an announce whose run of the utility ended *)
(* before its first chunk                                                  *)
StaleSession ==
    /\ wire = <<>>
    /\ hist = <<EchoItem(StaleCount)>>
    /\ coms_buf = <<>>
    /\ lost_bytes = FALSE
    /\ pc = "echo"
    /\ iters = StepByCount(StaleCount)
    /\ pending = "none"
    /\ tx = send_packet(EchoMsg(StaleCount))
    /\ returns = <<Ok(EchoMsg(StaleCount))>>
    /\ echo_at = 1
    /\ echo_tx = 0
    /\ initiate_shutdown = FALSE
    /\ usb_shutdown = FALSE
    /\ usb_pc = "run"
    /\ usb_enabled = TRUE
    /\ reset = "none"

(* the first bytes of a frame, written by a run of the utility that ended *)
(* inside port.write                                                      *)
PartialFrame == <<2, 65>>

(* the device idle, its ring holding the first bytes of a frame *)
StaleRing ==
    /\ wire = <<>>
    /\ hist = <<[kind |-> "garbage", bytes |-> PartialFrame]>>
    /\ coms_buf = PartialFrame
    /\ lost_bytes = FALSE
    /\ pc = "idle"
    /\ iters = 0
    /\ pending = "none"
    /\ tx = <<>>
    /\ returns = <<>>
    /\ echo_at = 0
    /\ echo_tx = 0
    /\ initiate_shutdown = FALSE
    /\ usb_shutdown = FALSE
    /\ usb_pc = "run"
    /\ usb_enabled = TRUE
    /\ reset = "none"

(* the device as booted, or as an earlier run of the utility left it: in a *)
(* session whose response header that run has read or has left in the      *)
(* port, or with a part of a frame in its ring                             *)
EchoInit ==
    /\ CodecIdle /\ KbdIdle /\ LogInit /\ FwInit /\ ScanIdle /\ UsbIdle /\ Uf2Idle /\ RecIdle
    /\ \E msg \in EchoMessages :
           \/ ServerInit /\ EchoBoot(msg, 0)
           \/ StaleSession /\ \E pos \in {0, Len(Concat(tx))} : EchoBoot(msg, pos)
           \/ StaleRing /\ EchoBoot(msg, 0)

EchoNext ==
    \/ EchoSendCmd
    \/ EchoSendData
    \/ EchoRecvHdr
    \/ EchoRecvData
    \/ \E count \in 1..MAX_PACKET_SIZE : RecvPacket(count)
    \/ OnRecvError
    \/ OnEchoMsg
    \/ OnData
    \/ EchoStep

EchoSpec == EchoInit /\ [][EchoNext]_vars

(***************************************************************************)
(* The firmware-container analyzer, cli/src/main.rs analyze_uf2, on the    *)
(* blocks Uf2Block::parse accepted.                                        *)
(***************************************************************************)
beside_uf2 == <<server_vars, codec_vars, kbd_vars, log_vars, fw_vars, scan_vars, usb_vars,
                host_vars, rec_vars>>

(* uf2.rs 8 *)
UF2_PAYLOAD_LEN == 476

(* uf2.rs 144 and 146: bits of flags_data *)
NotMainFlash == 1
FamilyIdPres == 8192

(* the start of the flash in the address space *)
FlashBase == 65536 * 4096

(* How many blocks a file of the enumeration holds. *)
MaxBlocks == 3

Uf2Block(flags_data, target_addr, payload_size) ==
    [flags_data |-> flags_data, target_addr |-> target_addr, payload_size |-> payload_size]

BlockSet ==
    {Uf2Block(f, FlashBase + k * UF2_PAYLOAD_LEN, z) :
        f \in {NotMainFlash, FamilyIdPres, FamilyIdPres + NotMainFlash},
        k \in 0..2, z \in {100, UF2_PAYLOAD_LEN}}

(* four contiguous blocks of 476, 476, 476 and 100 bytes *)
ExampleFile ==
    [k \in 1..4 |->
        Uf2Block(FamilyIdPres, FlashBase + (k - 1) * UF2_PAYLOAD_LEN,
                 IF k = 4 THEN 100 ELSE UF2_PAYLOAD_LEN)]

Uf2Files ==
    UNION {[1..n -> BlockSet] : n \in 0..MaxBlocks} \cup {ExampleFile}

(* bitflags contains(): the bit of flag is set in flags *)
contains(flags, flag) == (flags \div flag) % 2 = 1

(* uf2.rs 61-64 *)
get_flags(block) == block.flags_data

(* uf2.rs 82-84: a u32 addition, of blocks that end below 2^32 *)
get_bounds(block) == <<block.target_addr, block.target_addr + block.payload_size>>

(* main.rs 91-93: the filter of the loop *)
Filtered(block) == contains(get_flags(block), NotMainFlash)

(* main.rs 86-89 *)
AnalyzeFirst ==
    /\ uf2_pc = "first"
    /\ IF uf2_blocks = <<>>
       THEN uf2_pc' = "failed" /\ UNCHANGED <<uf2_bounds, uf2_idx>>
       ELSE /\ uf2_bounds' = Some(get_bounds(uf2_blocks[1]))
            /\ uf2_idx' = 2
            /\ uf2_pc' = "loop"
    /\ UNCHANGED <<uf2_blocks, uf2_out>>
    /\ UNCHANGED beside_uf2

(* Mutant of Adjacent: a block that starts where the range starts extends it. *)
AdjacentStart(bounds, new_bounds) == bounds[1] = new_bounds[1]

(* main.rs 96 *)
Adjacent(bounds, new_bounds) == bounds[2] = new_bounds[1]

(* main.rs 99 and 104: the line printed for bounds, start and byte count *)
RangeLine(bounds) == <<bounds[1], bounds[2] - bounds[1]>>

(* main.rs 91-102: the next block of blocks[1..], filtered out or walked *)
AnalyzeBlock ==
    /\ uf2_pc = "loop"
    /\ uf2_idx <= Len(uf2_blocks)
    /\ uf2_idx' = uf2_idx + 1
    /\ IF Filtered(uf2_blocks[uf2_idx])
       THEN UNCHANGED <<uf2_bounds, uf2_out>>
       ELSE IF Adjacent(uf2_bounds.v, get_bounds(uf2_blocks[uf2_idx]))
       THEN /\ uf2_bounds' = Some(<<uf2_bounds.v[1], get_bounds(uf2_blocks[uf2_idx])[2]>>)
            /\ UNCHANGED uf2_out
       ELSE /\ uf2_out' = Append(uf2_out, RangeLine(uf2_bounds.v))
            /\ uf2_bounds' = Some(get_bounds(uf2_blocks[uf2_idx]))
    /\ UNCHANGED <<uf2_blocks, uf2_pc>>
    /\ UNCHANGED beside_uf2

(* main.rs 104-106 *)
AnalyzeLast ==
    /\ uf2_pc = "loop"
    /\ uf2_idx > Len(uf2_blocks)
    /\ uf2_out' = Append(uf2_out, RangeLine(uf2_bounds.v))
    /\ uf2_pc' = "done"
    /\ UNCHANGED <<uf2_blocks, uf2_idx, uf2_bounds>>
    /\ UNCHANGED beside_uf2

Uf2Init ==
    /\ ServerInit /\ CodecIdle /\ KbdIdle /\ LogInit /\ FwInit
    /\ ScanIdle /\ UsbIdle /\ HostIdle /\ RecIdle
    /\ uf2_blocks \in Uf2Files
    /\ uf2_pc = "first"
    /\ uf2_idx = 0
    /\ uf2_bounds = None
    /\ uf2_out = <<>>

Uf2Next ==
    \/ AnalyzeFirst
    \/ AnalyzeBlock
    \/ AnalyzeLast

Uf2Spec == Uf2Init /\ [][Uf2Next]_vars

(***************************************************************************)
(* Specification UsbErrSpec: the command server before a host that resets  *)
(* nothing, on an endpoint whose reads and writes may fail.                *)
(***************************************************************************)
UsbErrItems ==
    {item \in HostItems : item.kind = "cmd" => item.cmd.tag \notin {"Reset", "UsbDfu"}}

UsbErrNext ==
    \/ \E item \in UsbErrItems : HostSend(item)
    \/ \E count \in 1..MAX_PACKET_SIZE : RecvPacket(count)
    \/ OnRecvError
    \/ OnEchoMsg
    \/ OnData
    \/ EchoStep
    \/ UsbReadError
    \/ UsbWriteError

UsbErrSpec == Init /\ [][UsbErrNext]_vars

(***************************************************************************)
(* Specification SessionSpec: the host opens an Echo{9} session and then   *)
(* writes Data commands, other commands, frames that do not decode and     *)
(* garbage that overflows the ring.                                        *)
(***************************************************************************)
SessionFrames == 4

SessionItems ==
    {EchoItem(9)}
    \cup {[kind |-> "cmd", cmd |-> Data(d), bytes |-> send_command("Command", Data(d))] :
              d \in DataSet}
    \cup {[kind |-> "bad", bytes |-> b] : b \in BadFrames}
    \cup {[kind |-> "garbage", bytes |-> LongGarbage]}

(* the host writes item; the first is the announce, the long garbage comes *)
(* once                                                                    *)
SessionSend(item) ==
    /\ Len(hist) < SessionFrames
    /\ hist = <<>> => item = EchoItem(9)
    /\ item.kind = "garbage" => \A i \in 1..Len(hist) : hist[i].kind # "garbage"
    /\ wire' = wire \o item.bytes
    /\ hist' = Append(hist, item)
    /\ UNCHANGED beside_server
    /\ UNCHANGED <<coms_buf, lost_bytes, pc, iters, pending, tx, returns, echo_at, echo_tx,
                   initiate_shutdown, usb_shutdown, usb_pc, usb_enabled, reset>>

SessionNext ==
    \/ \E item \in SessionItems : SessionSend(item)
    \/ \E count \in 1..MAX_PACKET_SIZE : RecvPacket(count)
    \/ OnRecvError
    \/ OnEchoMsg
    \/ OnData
    \/ EchoStep

SessionSpec == Init /\ [][SessionNext]_vars

(***************************************************************************)
(* Codec runs: one value is encoded by one of the three encoders, a byte   *)
(* of the frame may change in transit, and one of the three decoders reads *)
(* the frame (cli/src/main.rs tests round_trip, command_wire_cross,        *)
(* response_wire_cross, key_response_cs).                                  *)
(***************************************************************************)
(* The largest integer the sample values hold (TLC integers end at 2^31 - 1). *)
MaxSampleInt == 2147483646

SampleErrors ==
    {buffer_size, PcErr("DeserializeUnexpectedEnd").err, crc_mismatch(0, 7),
     crc_mismatch(255, 0), bad_length(0), invariant(6)}

SampleCommands ==
    {Reset, UsbDfu, EchoMsg(0), EchoMsg(127), EchoMsg(128), EchoMsg(300), EchoMsg(65535),
     Data(<<0, 0, 0, 0, 0, 0, 0, 0>>), Data(<<97, 98, 99, 0, 0, 0, 0, 0>>),
     Data(<<1, 2, 3, 4, 5, 6, 7, 8>>), Data(<<255, 255, 255, 255, 255, 255, 255, 255>>)}

SampleResponses ==
    {Ack("AckReset"), Ack("AckUsbDfu"), Ack("AckFlashFw"), Nack(Unexpected),
     Nack(BufferOverflow), EchoMsg(0), EchoMsg(300), EchoMsg(65535),
     Data(<<97, 98, 99, 0, 0, 0, 0, 0>>), Data(<<1, 2, 3, 4, 5, 6, 7, 8>>),
     TimerDebug(0, 0, FALSE, FALSE), TimerDebug(300, 5, TRUE, FALSE),
     TimerDebug(MaxSampleInt, MaxSampleInt, TRUE, TRUE)}
    \cup {Nack(PacketErr(e)) : e \in SampleErrors}

SampleKeyResponses ==
    {KrResponse(r) : r \in {Ack("AckReset"), Nack(PacketErr(crc_mismatch(0, 7))),
                            Data(<<97, 98, 99, 0, 0, 0, 0, 0>>),
                            TimerDebug(MaxSampleInt, MaxSampleInt, TRUE, TRUE)}}
    \cup {KrKeyUpdate(<<>>), KrKeyUpdate(<<8, 12, 1>>), KrKeyUpdate(<<0, 34>>),
          KrKeyUpdate([i \in 1..NUM_KEYS |-> i - 1])}

Samples(T) ==
    CASE T = "Command" -> SampleCommands
      [] T = "Response" -> SampleResponses
      [] T = "KeyResponse" -> SampleKeyResponses

(* the values a changed byte takes *)
TamperBytes == {0, 1, 2, 255}

(* the encoders are called with the capacity their type asks for, or with *)
(* one byte less                                                           *)
Capacities(max_size) == {max_size - 1, max_size}

Encoded(how, result) ==
    /\ framing = "none"
    /\ framing' = how
    /\ frame' = result
    /\ UNCHANGED <<ty, x, tampered, flipped, decoder, decoded>>
    /\ UNCHANGED beside_codec

CsEncode == \E N \in Capacities(CS_MAX_SIZE(ty)) : Encoded("cs", cs_encode(ty, x, N))

WireEncode == \E N \in Capacities(WIRE_MAX_SIZE(ty)) : Encoded("wire", wire_encode(ty, x, N))

SendCommand == framing = "none" /\ Encoded("host", Ok(send_command(ty, x)))

(* One byte of the frame changes in transit.  An escaped frame keeps its   *)
(* delimiter and gains no other 0x00.                                      *)
Tamper ==
    \E i \in 1..NUM_KEYS + 5, b \in TamperBytes :
        /\ framing # "none" /\ frame.ok /\ decoder = "none" /\ ~tampered
        /\ i <= Len(frame.val)
        /\ b # frame.val[i]
        /\ framing # "cs" => (i < Len(frame.val) /\ b # 0)
        /\ frame' = Ok([frame.val EXCEPT ![i] = b])
        /\ tampered' = TRUE
        /\ UNCHANGED <<ty, x, framing, flipped, decoder, decoded>>
        /\ UNCHANGED beside_codec

(* the byte b with bit k flipped *)
FlipBitOf(b, k) == IF (b \div Pow2(k)) % 2 = 1 THEN b - Pow2(k) ELSE b + Pow2(k)

(* what a receiver takes as the frame: an escaped frame ends at its first  *)
(* 0x00 (serial.rs 52, cli main.rs 182), a CRC-only frame has its length   *)
FrameReceived(how, bytes) ==
    IF how = "cs" THEN bytes ELSE ReadUntilZero(bytes, FirstZero(bytes))

(* One bit of the frame flips in transit: any bit of a CRC-only frame, any *)
(* bit before the delimiter of an escaped frame.                           *)
FlipBit ==
    \E i \in 1..NUM_KEYS + 5, k \in 0..7 :
        /\ framing # "none" /\ frame.ok /\ decoder = "none" /\ ~tampered
        /\ i <= Len(frame.val)
        /\ framing # "cs" => i < Len(frame.val)
        /\ frame' = Ok(FrameReceived(framing,
                                     [frame.val EXCEPT ![i] = FlipBitOf(frame.val[i], k)]))
        /\ tampered' = TRUE
        /\ flipped' = TRUE
        /\ UNCHANGED <<ty, x, framing, decoder, decoded>>
        /\ UNCHANGED beside_codec

Decoded(by, result) ==
    /\ frame.ok /\ decoder = "none"
    /\ decoder' = by
    /\ decoded' = result
    /\ UNCHANGED <<ty, x, framing, frame, tampered, flipped>>
    /\ UNCHANGED beside_codec

CsDecode == framing = "cs" /\ Decoded("cs_decode", cs_decode(ty, frame.val))

WireDecode ==
    framing \in {"wire", "host"} /\ Decoded("wire_decode", wire_decode(ty, frame.val))

RecvResponse ==
    framing \in {"wire", "host"} /\ Decoded("recv_response", recv_response(ty, frame.val))

CodecInit ==
    /\ ServerInit
    /\ KbdIdle
    /\ LogInit
    /\ FwInit
    /\ RestIdle
    /\ ty \in {"Command", "Response", "KeyResponse"}
    /\ x \in Samples(ty)
    /\ framing = "none"
    /\ frame = Err("none")
    /\ tampered = FALSE
    /\ flipped = FALSE
    /\ decoder = "none"
    /\ decoded = Err("none")

CodecNext ==
    \/ CsEncode
    \/ WireEncode
    \/ SendCommand
    \/ Tamper
    \/ FlipBit
    \/ CsDecode
    \/ WireDecode
    \/ RecvResponse

CodecSpec == CodecInit /\ [][CodecNext]_vars

(***************************************************************************)
(* Specification DecodeSpec: the decoders are given buffers as they come,  *)
(* well formed or not.                                                     *)
(***************************************************************************)
(* How many bytes a buffer holds before its last one. *)
MaxRawLen == 3

(* escape codes that point inside the buffer, past its end, or far away *)
RawBytes == {1, 2, 3, 255}

RawBodies == UNION {[1..n -> RawBytes] : n \in 0..MaxRawLen}

(* a buffer with its delimiter, without it, or made of CRC-only bytes *)
RawBuffers == RawBodies \cup {Append(b, 0) : b \in RawBodies}

DecodeInit ==
    /\ ServerInit
    /\ KbdIdle
    /\ LogInit
    /\ FwInit
    /\ RestIdle
    /\ ty \in {"Command", "Response", "KeyResponse"}
    /\ x = Reset
    /\ framing \in {"cs", "wire"}
    /\ frame \in {Ok(buf) : buf \in RawBuffers}
    /\ tampered = TRUE
    /\ flipped = FALSE
    /\ decoder = "none"
    /\ decoded = Err("none")

DecodeNext ==
    \/ CsDecode
    \/ WireDecode

DecodeSpec == DecodeInit /\ [][DecodeNext]_vars

(***************************************************************************)
(* Specification KeyboardSpec: one half of the keyboard, strapped as left  *)
(* or as right, with the keys pressed and the writes of the other half as  *)
(* its inputs.                                                             *)
(***************************************************************************)
KeyboardInit ==
    /\ ServerInit
    /\ CodecIdle
    /\ LogInit
    /\ FwInit
    /\ RestIdle
    /\ \E level \in {"Low", "High"} : KbdBoot(level)

KeyboardNext ==
    \/ \E pressed \in SampleKeySets : KeyMatrixRun(pressed)
    \/ I2cMasterRun
    \/ \E result \in {"Ok", "Err"} : I2cMasterWrite(result)
    \/ \E event \in I2cWriteEvents : I2cSlaveRun(event)
    \/ \E result \in {"Ok", "Err"} : KeyHidRun(result)

KeyboardSpec == KeyboardInit /\ [][KeyboardNext]_vars

(***************************************************************************)
(* Specification BusSpec: one half of the keyboard with every event its    *)
(* bus can deliver and every result a write to the bus can have.           *)
(***************************************************************************)
BusNext ==
    \/ \E pressed \in BusKeySets : KeyMatrixRun(pressed)
    \/ I2cMasterRun
    \/ \E result \in {"Ok", "Err"} : I2cMasterWrite(result)
    \/ \E event \in I2cEvents : I2cSlaveRun(event)
    \/ \E result \in {"Ok", "Err"} : KeyHidRun(result)

BusSpec == KeyboardInit /\ [][BusNext]_vars

(***************************************************************************)
(* Specification KeyStateSpec: the keyboard with a bus that carries any    *)
(* payload that decodes: the coordinates of a KeyUpdate are raw bytes, and *)
(* the HID reporter builds the KeyState of what it has latched.            *)
(***************************************************************************)
(* the coordinates of the updates written on the bus *)
RawKeyUpdates == {<<>>, <<34>>, <<35>>, <<0, 69>>, <<19, 70>>, <<255>>}

RawEvents ==
    {Ok([cmd |-> "Write", buffer |-> cs_encode("KeyUpdate", k, CS_MAX_SIZE("KeyUpdate")).val]) :
         k \in RawKeyUpdates}

(* lib.rs 118-123: result.0[..] = true panics when the index is not below *)
(* the length of the array                                                *)
IndexPanics(left, right) ==
    \/ \E j \in 1..Len(left) : left[j] >= NUM_KEYS * NUM_HANDS
    \/ \E j \in 1..Len(right) : right[j] + NUM_KEYS >= NUM_KEYS * NUM_HANDS

(* KeyboardIf::run: one turn of the loop, with the panic of from_update; *)
(* the panic handler leaves for the boot ROM (panic_handler.rs 46) and   *)
(* no task runs any more                                                 *)
KeyHidBuild(result) ==
    /\ KeyHidTake
    /\ IF IndexPanics(hid_left', hid_right')
       THEN /\ tasks' = {}
            /\ UNCHANGED hid_last
       ELSE /\ WriteReport(hid_left', hid_right', result)
            /\ UNCHANGED tasks
    /\ UNCHANGED <<hand_pin, this_hand, i2c_last, i2c_pc, i2c_taken, i2c_tx>>
    /\ UNCHANGED beside_kbd

KeyStateNext ==
    \/ \E pressed \in BusKeySets : KeyMatrixRun(pressed)
    \/ I2cMasterRun
    \/ \E result \in {"Ok", "Err"} : I2cMasterWrite(result)
    \/ \E event \in RawEvents : I2cSlaveRun(event)
    \/ \E result \in {"Ok", "Err"} : KeyHidBuild(result)

KeyStateSpec == KeyboardInit /\ [][KeyStateNext]_vars

(***************************************************************************)
(* Specification MatrixSpec: the matrix scan of one half, pin by pin, with *)
(* the row pins read at each column as its input.                          *)
(***************************************************************************)
MatrixInit ==
    /\ ServerInit
    /\ CodecIdle
    /\ LogInit
    /\ FwInit
    /\ UsbIdle /\ HostIdle /\ Uf2Idle /\ RecIdle
    /\ ScanBoot
    /\ \E level \in {"Low", "High"} : KbdBoot(level)

MatrixNext ==
    \/ ScanBegin
    \/ ScanSetHigh
    \/ \E rows \in RowReadings : ScanRows(rows)
    \/ ScanSetLow
    \/ ScanPublish
    \/ ScanWake

MatrixSpec == MatrixInit /\ [][MatrixNext]_vars

(***************************************************************************)
(* Specification LoggerSpec: producers that log records, among them one    *)
(* that enters acquire again before its release, and the drain task.       *)
(***************************************************************************)
LoggerInit == ServerInit /\ CodecIdle /\ KbdIdle /\ LogInit /\ FwInit /\ RestIdle

LoggerNext ==
    \/ LogAcquire
    \/ \E n \in ChunkSizes : LogWrite(n)
    \/ \E n \in ChunkSizes : LogRelease(n)
    \/ DrainWake
    \/ DrainTake
    \/ \E result \in {"Ok", "Err"} : DrainWrite(result)
    \/ \E result \in {"Ok", "Err"} : DrainZlp(result)

LoggerSpec == LoggerInit /\ [][LoggerNext]_vars

(* the drain task is scheduled whenever it can take a step, and the writes *)
(* to the secondary endpoint complete; the producers log when they like    *)
DrainFairness ==
    /\ WF_vars(DrainWake)
    /\ WF_vars(DrainTake)
    /\ WF_vars(\E result \in {"Ok", "Err"} : DrainWrite(result))
    /\ WF_vars(\E result \in {"Ok", "Err"} : DrainZlp(result))

LoggerFairSpec == LoggerSpec /\ DrainFairness

(* the logger with defmt::flush among the producers' calls *)
FlushNext ==
    \/ LoggerNext
    \/ LogFlush

FlushSpec == LoggerInit /\ [][FlushNext]_vars

(***************************************************************************)
(* Specification RecordSpec: the logger with its critical section.  The    *)
(* producers' acquire takes a critical section and saves what it has to    *)
(* restore, release gives it back; a producer's caller may be inside a     *)
(* critical section of its own; the drain task runs only while none is     *)
(* active, and its take is under the ring's lock, a critical section.      *)
(***************************************************************************)
beside_rec == <<server_vars, codec_vars, kbd_vars, fw_vars, scan_vars, usb_vars, host_vars,
                uf2_vars>>

(* Mutant of ReleaseTo: release leaves no critical section active, whatever *)
(* acquire saved.                                                          *)
ReleaseToNone(restore) == FALSE

(* logging.rs 69-72: critical_section::release(restore) puts back what was *)
(* there before the acquire: a critical section is still active exactly    *)
(* when one was                                                            *)
ReleaseTo(restore) == restore

(* a producer's caller enters a critical section of its own *)
CallerEnter ==
    /\ ~log_panic /\ ~TAKEN
    /\ ~cs_held
    /\ cs_held' = TRUE
    /\ cs_outer' = TRUE
    /\ UNCHANGED <<CS_RESTORE, rec_start, rec_done>>
    /\ UNCHANGED log_vars
    /\ UNCHANGED beside_rec

(* and leaves it *)
CallerLeave ==
    /\ ~log_panic /\ ~TAKEN
    /\ cs_outer
    /\ cs_held' = FALSE
    /\ cs_outer' = FALSE
    /\ UNCHANGED <<CS_RESTORE, rec_start, rec_done>>
    /\ UNCHANGED log_vars
    /\ UNCHANGED beside_rec

(* Logger::acquire, logging.rs 37-54: the critical section is taken first; *)
(* the panic of a reentrant call comes before anything is stored           *)
RecAcquire ==
    /\ ~log_panic
    /\ log_depth' = log_depth + 1
    /\ cs_held' = TRUE
    /\ IF Reentrant(TAKEN)
       THEN log_panic' = TRUE /\ UNCHANGED <<TAKEN, CS_RESTORE, rec_start>>
       ELSE /\ TAKEN' = TRUE
            /\ CS_RESTORE' = cs_held
            /\ rec_start' = log_count
            /\ UNCHANGED log_panic
    /\ UNCHANGED <<log_buf, log_sig, log_pc, log_send, log_zlp, log_tx, log_count,
                   log_writes, log_lost, log_left>>
    /\ UNCHANGED <<cs_outer, rec_done>>
    /\ UNCHANGED beside_rec

(* Logger::write, logging.rs 75-78 *)
RecWrite(n) ==
    /\ ~log_panic
    /\ TAKEN
    /\ do_write(n)
    /\ UNCHANGED <<TAKEN, log_pc, log_send, log_zlp, log_tx, log_left, log_depth, log_panic>>
    /\ UNCHANGED rec_vars
    /\ UNCHANGED beside_rec

(* Logger::release, logging.rs 61-73 *)
RecRelease(n) ==
    /\ ~log_panic
    /\ TAKEN
    /\ do_write(n)
    /\ TAKEN' = FALSE
    /\ cs_held' = ReleaseTo(CS_RESTORE)
    /\ log_depth' = log_depth - 1
    /\ rec_done' = log_count + n
    /\ UNCHANGED <<log_pc, log_send, log_zlp, log_tx, log_left, log_panic>>
    /\ UNCHANGED <<CS_RESTORE, cs_outer, rec_start>>
    /\ UNCHANGED beside_rec

(* logging.rs 112-120: GLOBAL_COMS.buf.lock is a critical section of its   *)
(* own, entered by the drain task when none is active                      *)
RecDrainTake ==
    /\ ~log_panic
    /\ ~cs_held
    /\ log_pc = "woken"
    /\ log_send' = DrainFront(log_buf, TakeCount(Len(log_buf)))
    /\ log_buf' = SubSeq(log_buf, TakeCount(Len(log_buf)) + 1, Len(log_buf))
    /\ log_left' = Len(log_buf) - TakeCount(Len(log_buf))
    /\ log_zlp' = NeedsZlp(TakeCount(Len(log_buf)) = Len(log_buf), TakeCount(Len(log_buf)),
                           Len(log_buf) - TakeCount(Len(log_buf)) = 0)
    /\ log_pc' = "write"
    /\ UNCHANGED <<TAKEN, log_sig, log_tx, log_count, log_writes, log_lost, log_depth,
                   log_panic>>
    /\ UNCHANGED rec_vars
    /\ UNCHANGED beside_rec

RecordNext ==
    \/ CallerEnter
    \/ CallerLeave
    \/ RecAcquire
    \/ \E n \in ChunkSizes : RecWrite(n)
    \/ \E n \in ChunkSizes : RecRelease(n)
    \/ ~cs_held /\ DrainWake
    \/ RecDrainTake
    \/ \E result \in {"Ok", "Err"} : ~cs_held /\ DrainWrite(result)
    \/ \E result \in {"Ok", "Err"} : ~cs_held /\ DrainZlp(result)

RecordSpec == LoggerInit /\ [][RecordNext]_vars

(***************************************************************************)
(* Specification FirmwareSpec: two callers that each lock the interface    *)
(* once and use their session, and the receiver.                           *)
(***************************************************************************)
FirmwareInit == ServerInit /\ CodecIdle /\ KbdIdle /\ LogInit /\ FwInit /\ RestIdle

FirmwareNext ==
    \/ \E c \in Callers : LockCall(c)
    \/ \E c \in Callers, initial_offset \in FwOffsets : LockDone(c, initial_offset)
    \/ \E c \in Callers : SessionBegin(c)
    \/ \E c \in Callers, data \in FwChunks : SessionWrite(c, data)
    \/ \E c \in Callers, offset \in FwOffsets : SessionSetOffset(c, offset)
    \/ \E c \in Callers : SessionFinish(c)
    \/ \E c \in Callers : SessionFinished(c)
    \/ \E c \in Callers : SessionDrop(c)
    \/ \E result \in {"Ok", "Err"} : RecvrRun(result)

FirmwareSpec == FirmwareInit /\ [][FirmwareNext]_vars

(***************************************************************************)
(* Specification BlockSpec: one caller that locks the interface at an      *)
(* offset, writes a long stream 8 bytes at a time and finishes.  The       *)
(* bytes of the stream are told apart by their place in it.  Nobody        *)
(* receives: the channel has room for what is sent.                        *)
(***************************************************************************)
MaxStreamBlocks == 2

(* the data of the Block messages sent so far, one after the other *)
RECURSIVE SentData(_)
SentData(sent) ==
    IF sent = <<>> THEN <<>>
    ELSE IF Head(sent).message.cmd = "Block"
         THEN Head(sent).message.data \o SentData(Tail(sent))
         ELSE SentData(Tail(sent))

(* a Block in the history of sends; the Finish caller c sent *)
IsBlockSent(entry) == entry.message.cmd = "Block"

FwFinishFrom(c) == [from |-> c, message |-> FwFinish]

(* how many bytes the caller has written: those sent and those buffered *)
Written(c) == Len(SentData(fw_sent)) + Len(fw_data[c])

(* Mutant of is_full: the buffer never counts as full. *)
is_full_never(data) == FALSE

(* heapless Vec::is_full, dfu.rs 76 *)
is_full(data) == Len(data) = FLASH_WRITE_BLOCK

(* Vec::extend_from_slice, dfu.rs 79: an error when the slice does not fit *)
Fits(data, slice) == Len(data) + Len(slice) <= FLASH_WRITE_BLOCK

(* FirmwareSession::write, dfu.rs 75-81, with the next 8 bytes of the      *)
(* stream; async_unwrap! parks the caller when the append fails            *)
StreamWrite(c) ==
    /\ fw_pc[c] = "held"
    /\ fw_calls[c] = 0
    /\ Len(fw_sent) <= MaxStreamBlocks
    /\ Len(fw_sent) = MaxStreamBlocks => Len(fw_data[c]) < 2 * DATA_COUNT
    /\ IF is_full(fw_data[c])
       THEN /\ write_block(c)
            /\ fw_data' = [fw_data EXCEPT ![c] = Ordinals(Written(c), DATA_COUNT)]
            /\ UNCHANGED fw_pc
       ELSE IF Fits(fw_data[c], Ordinals(Written(c), DATA_COUNT))
       THEN /\ fw_data' = [fw_data EXCEPT ![c] = @ \o Ordinals(Written(c), DATA_COUNT)]
            /\ UNCHANGED <<fw_chan, fw_sent, fw_offset, fw_pc>>
       ELSE /\ fw_pc' = [fw_pc EXCEPT ![c] = "parked"]
            /\ UNCHANGED <<fw_chan, fw_sent, fw_offset, fw_data>>
    /\ UNCHANGED <<fw_guard, fw_calls, fw_state, fw_flash>>
    /\ UNCHANGED beside_fw

BlockNext ==
    \/ LockCall(1)
    \/ \E initial_offset \in FwOffsets : LockDone(1, initial_offset)
    \/ StreamWrite(1)
    \/ fw_calls[1] = 0 /\ SessionFinish(1)
    \/ SessionFinished(1)
    \/ SessionDrop(1)

BlockSpec == FirmwareInit /\ [][BlockNext]_vars

(***************************************************************************)
(* Properties of the command server (specification Spec).                  *)
(***************************************************************************)
(* what the host reads from packet i of the primary endpoint *)
HostReads(i) == recv_response("Response", tx[i])

(* the frame recv_cmd is about to return, and what it decodes to *)
FrameInRing == SubSeq(coms_buf, 1, FirstZero(coms_buf))

(* the first n items the host wrote are frames, one delimiter each *)
FramesOnly(n) == n <= Len(hist) /\ \A i \in 1..n : hist[i].kind # "garbage"

(* the items from place a to place b are Data commands *)
DataItems(a, b) ==
    b <= Len(hist) /\ \A i \in a..b : hist[i].kind = "cmd" /\ hist[i].cmd.tag = "Data"

CeilDiv8(n) == IF n % 8 = 0 THEN n \div 8 ELSE (n \div 8) + 1

(* C1: for the last EchoMsg{n} the idle loop handled, the device sent one  *)
(* EchoMsg{n} response and then, while the host sends Data commands, one   *)
(* Data response per Data command with the command's payload, ceil(n/8) of *)
(* them in all; the session is open until then and over after that, also   *)
(* for n = 0 and for n not a multiple of 8.                                *)
C1_EchoSession ==
    echo_at > 0 =>
        LET n == returns[echo_at].val.count
            k == CeilDiv8(n)
            got == Len(returns) - echo_at
        IN  /\ HostReads(echo_tx + 1) = Ok(EchoMsg(n))
            /\ \A j \in 0..k :
                   (j <= got /\ FramesOnly(echo_at) /\ DataItems(echo_at + 1, echo_at + j)) =>
                       /\ \A i \in 1..j :
                              HostReads(echo_tx + 1 + i) = Ok(Data(hist[echo_at + i].cmd.data))
                       /\ j = got =>
                              /\ Len(tx) = echo_tx + 1 + j
                              /\ pc = IF j = k THEN "idle" ELSE "echo"

(* an EchoMsg{9} session that got its two Data commands and is over *)
C1_Witness ==
    /\ echo_at > 0 /\ returns[echo_at].val.count = 9
    /\ Len(returns) = echo_at + 2
    /\ FramesOnly(echo_at) /\ DataItems(echo_at + 1, echo_at + 2)
    /\ hist[echo_at + 1] # hist[echo_at + 2]
    /\ pc = "idle" /\ Len(tx) = echo_tx + 3

(* the step that returns a frame which fails to decode *)
C2_ErrorStep ==
    (/\ InRecvCmd /\ FirstZero(coms_buf) # 0 /\ ~lost_bytes
     /\ ~wire_decode("Command", FrameInRing).ok
     /\ returns' # returns)
    => (/\ returns' = Append(returns, Err(PacketErr(wire_decode("Command", FrameInRing).err)))
        /\ Len(tx') = Len(tx) + 1
        /\ SubSeq(tx', 1, Len(tx)) = tx
        /\ recv_response("Response", tx'[Len(tx')])
               = Ok(Nack(PacketErr(wire_decode("Command", FrameInRing).err)))
        /\ coms_buf' = SubSeq(coms_buf, FirstZero(coms_buf) + 1, Len(coms_buf))
        /\ lost_bytes' = FALSE
        /\ pc = "idle" => (pc' = "idle" /\ iters' = iters)
        /\ UNCHANGED <<wire, hist, pending, initiate_shutdown, usb_shutdown, usb_pc,
                       usb_enabled, reset>>)

(* a bad first frame, then a valid one *)
C2_NextFrame ==
    (/\ Len(hist) >= 2 /\ hist[1].kind = "bad" /\ hist[2].kind = "cmd"
     /\ Len(returns) >= 2)
    => (/\ ~returns[1].ok /\ returns[1].err.tag = "PacketErr"
        /\ returns[2] = Ok(hist[2].cmd))

C3_AsStated ==
    (/\ Len(hist) = 2 /\ hist[1].bytes = LongGarbage
     /\ hist[2].kind = "cmd" /\ hist[2].cmd = Reset
     /\ wire = <<>> /\ FirstZero(coms_buf) = 0 /\ coms_buf = <<>>)
    => (/\ returns = <<Err(BufferOverflow), Ok(Reset)>>
        /\ initiate_shutdown)

(* C3, amended: the garbage has no delimiter, so it runs into the frame    *)
(* that follows; whatever the split into packets, everything up to that    *)
(* frame's delimiter is discarded with one Nack(BufferOverflow), the frame *)
(* is not handled, and the frame after it is returned as sent.             *)
C3_Overflow ==
    (Len(hist) >= 2 /\ hist[1].bytes = LongGarbage /\ hist[2].kind = "cmd") =>
        /\ Len(returns) >= 1 =>
               /\ returns[1] = Err(BufferOverflow)
               /\ HostReads(1) = Ok(Nack(BufferOverflow))
        /\ Len(returns) = 1 => (Len(tx) = 1 /\ pc = "idle" /\ ~initiate_shutdown)
        /\ Len(returns) >= 2 =>
               (Len(hist) >= 3 /\ hist[3].kind = "cmd" /\ returns[2] = Ok(hist[3].cmd))

(* garbage, a Reset frame that went with it, and a frame that came through *)
C3_Witness ==
    /\ Len(hist) = 3 /\ hist[1].bytes = LongGarbage
    /\ hist[2].kind = "cmd" /\ hist[2].cmd = Reset
    /\ returns = <<Err(BufferOverflow), Ok(hist[3].cmd)>>
    /\ wire = <<>>

(* the bytes the host wrote, and their delimiter-terminated pieces *)
RECURSIVE Flatten(_)
Flatten(items) == IF items = <<>> THEN <<>> ELSE Head(items).bytes \o Flatten(Tail(items))

RECURSIVE Pieces(_)
Pieces(stream) ==
    IF FirstZero(stream) = 0 THEN <<>>
    ELSE <<SubSeq(stream, 1, FirstZero(stream))>>
         \o Pieces(SubSeq(stream, FirstZero(stream) + 1, Len(stream)))

NoLongGarbage == \A i \in 1..Len(hist) : hist[i].bytes # LongGarbage

(* C4 as the specification states it: a valid frame, bytes without 0x00,   *)
(* a valid frame: the first call returns the first command, the following  *)
(* call the second.                                                        *)
C4_AsStated ==
    (/\ Len(hist) = 3 /\ hist[1].kind = "cmd" /\ hist[2].kind = "garbage"
     /\ hist[3].kind = "cmd" /\ NoLongGarbage
     /\ Len(returns) >= 2)
    => (returns[1] = Ok(hist[1].cmd) /\ returns[2] = Ok(hist[3].cmd))

(* C4, amended: recv_cmd synchronizes on the delimiter only.  Call i       *)
(* returns what the i-th delimiter-terminated piece of the stream decodes  *)
(* to: the first frame's command on the first call, and on the following   *)
(* call the result for the garbage together with the second frame.         *)
C4_SelfSync ==
    NoLongGarbage =>
        /\ Len(returns) <= Len(Pieces(Flatten(hist)))
        /\ \A i \in 1..Len(returns) :
               returns[i] = (IF wire_decode("Command", Pieces(Flatten(hist))[i]).ok
                             THEN wire_decode("Command", Pieces(Flatten(hist))[i])
                             ELSE Err(PacketErr(wire_decode("Command",
                                                            Pieces(Flatten(hist))[i]).err)))
        /\ (Len(hist) >= 1 /\ hist[1].kind = "cmd" /\ Len(returns) >= 1) =>
               returns[1] = Ok(hist[1].cmd)

(* frame, garbage, frame: the second call returned an error *)
C4_Witness ==
    /\ Len(hist) = 3 /\ hist[1].kind = "cmd" /\ hist[2].kind = "garbage"
    /\ hist[3].kind = "cmd" /\ NoLongGarbage
    /\ Len(returns) = 2 /\ returns[1] = Ok(hist[1].cmd)
    /\ returns[2] = Err(PacketErr(wire_decode("Command",
                                              hist[2].bytes \o hist[3].bytes).err))

(* the idle loop's step that returns a Data command *)
C5_DataStep ==
    (/\ pc = "idle" /\ FirstZero(coms_buf) # 0 /\ ~lost_bytes
     /\ wire_decode("Command", FrameInRing).ok
     /\ wire_decode("Command", FrameInRing).val.tag = "Data"
     /\ returns' # returns)
    => (/\ returns' = Append(returns, wire_decode("Command", FrameInRing))
        /\ Len(tx') = Len(tx) + 1
        /\ SubSeq(tx', 1, Len(tx)) = tx
        /\ recv_response("Response", tx'[Len(tx')]) = Ok(Nack(Unexpected))
        /\ coms_buf' = SubSeq(coms_buf, FirstZero(coms_buf) + 1, Len(coms_buf))
        /\ pc' = "idle"
        /\ UNCHANGED <<wire, hist, iters, pending, echo_at, echo_tx, initiate_shutdown,
                       usb_shutdown, usb_pc, usb_enabled, reset>>)

(* C5: a Data command taken by the idle loop gets exactly one              *)
(* Nack(Unexpected); the frame leaves the ring, the server stays idle and  *)
(* nothing else changes.                                                   *)
C5_IdleData == [][C5_DataStep]_vars

(* a Data command was the first frame and got its one Nack(Unexpected) *)
C5_Witness ==
    /\ Len(hist) >= 1 /\ hist[1].kind = "cmd" /\ hist[1].cmd.tag = "Data"
    /\ returns = <<Ok(hist[1].cmd)>>
    /\ Len(tx) = 1 /\ HostReads(1) = Ok(Nack(Unexpected))
    /\ pc = "idle"

(* C6 as the specification states it: once the shutdown value is           *)
(* published for a Reset or UsbDfu command, Ack(AckReset) or Ack(AckUsbDfu) *)
(* has been written to the primary endpoint.                               *)
C6_AsStated ==
    initiate_shutdown =>
        \E i \in 1..Len(tx) :
            HostReads(i) = Ok(Ack(IF pending = "Reset" THEN "AckReset" ELSE "AckUsbDfu"))

(* the state once a reset was triggered, and the step that triggers it *)
C7_ResetState ==
    reset # "none" =>
        (/\ initiate_shutdown /\ usb_pc = "done" /\ ~usb_enabled
         /\ reset = (IF pending = "Reset" THEN "watchdog" ELSE "bootrom"))

C7_ResetStep == reset' # reset => (reset = "none" /\ usb_pc = "done" /\ ~usb_enabled)

(* C7: the watchdog reset or the jump to the ROM bootloader has happened   *)
(* only if the shutdown value was published, the USB task has seen it,     *)
(* has disabled the USB device and has signalled USB_SHUTDOWN; and the     *)
(* step that triggers it starts from such a state.                         *)
C7_ResetAfterUsb == []C7_ResetState /\ [][C7_ResetStep]_vars

(* the ROM bootloader was entered *)
C7_Witness == reset = "bootrom" /\ usb_pc = "done" /\ ~usb_enabled

(***************************************************************************)
(* Properties of the codec (specification CodecSpec).                      *)
(***************************************************************************)
(* C8: a frame that arrives as encoded decodes to the value encoded: under *)
(* cs_encode/cs_decode, under wire_encode/wire_decode, from the host's     *)
(* send_command to the device's wire_decode and from wire_encode to the    *)
(* host's recv_response; and the encoders accept every value when given    *)
(* the capacity the type asks for.                                         *)
C8_RoundTrip ==
    /\ (decoder # "none" /\ ~tampered) => decoded = Ok(x)
    /\ cs_encode(ty, x, CS_MAX_SIZE(ty)).ok
    /\ wire_encode(ty, x, WIRE_MAX_SIZE(ty)).ok

(* a Data command with 0x00 bytes went from send_command to wire_decode *)
C8_Witness ==
    /\ framing = "host" /\ decoder = "wire_decode" /\ ~tampered
    /\ ty = "Command" /\ x = Data(<<97, 98, 99, 0, 0, 0, 0, 0>>)
    /\ decoded = Ok(x)

(* C9: a frame wire_encode returns or send_command writes ends with 0x00   *)
(* and has no 0x00 before its end.                                         *)
C9_OneDelimiter ==
    (framing \in {"wire", "host"} /\ frame.ok /\ ~tampered) =>
        /\ Len(frame.val) >= 1
        /\ frame.val[Len(frame.val)] = 0
        /\ \A i \in 1..(Len(frame.val) - 1) : frame.val[i] # 0

(* wire_encode framed a value whose serialization holds 0x00 bytes *)
C9_Witness ==
    /\ framing = "wire" /\ frame.ok /\ ~tampered
    /\ ty = "Response" /\ x = Data(<<97, 98, 99, 0, 0, 0, 0, 0>>)
    /\ Len(frame.val) = 12

(* the checksummed buffer cs_decode was given, or wire_decode unescaped *)
Checksummed ==
    IF decoder = "cs_decode" THEN Ok(frame.val)
    ELSE cobs_decode(SubSeq(frame.val, 1, Len(frame.val) - 1))

(* C10: cs_decode, and wire_decode once the frame is unescaped, return a   *)
(* value only if the buffer's last byte is the CRC-8/BLUETOOTH of the      *)
(* bytes before it; if it is not, they return CrcMismatch with the CRC     *)
(* computed and the byte received, whatever the message bytes are.         *)
C10_CrcChecked ==
    /\ checksum(<<49, 50, 51, 52, 53, 54, 55, 56, 57>>) = 38
    /\ (decoder \in {"cs_decode", "wire_decode"} /\ Checksummed.ok /\ Checksummed.val # <<>>) =>
           LET buf == Checksummed.val
               calculated == checksum(SubSeq(buf, 1, Len(buf) - 1))
               actual == buf[Len(buf)]
           IN  /\ decoded.ok => calculated = actual
               /\ calculated # actual => decoded = Err(crc_mismatch(calculated, actual))

(* a changed byte made wire_decode return CrcMismatch *)
C10_Witness ==
    /\ decoder = "wire_decode" /\ tampered
    /\ ~decoded.ok /\ decoded.err.tag = "CrcMismatch"
    /\ decoded.err.actual # decoded.err.calculated

(* C11 as the specification states it: after the flip of one bit of the    *)
(* encoded region of a frame, decode fails with CrcMismatch.               *)
C11_AsStated ==
    (flipped /\ decoder \in {"cs_decode", "wire_decode"}) =>
        (~decoded.ok /\ decoded.err.tag = "CrcMismatch")

(* the frame as it was encoded *)
FrameSent == IF framing = "host" THEN send_command(ty, x)
             ELSE IF framing = "wire" THEN wire_encode(ty, x, WIRE_MAX_SIZE(ty)).val
             ELSE cs_encode(ty, x, CS_MAX_SIZE(ty)).val

(* C11, amended: after the flip of one bit, no decoder returns a value.    *)
(* cs_decode fails with CrcMismatch.  wire_decode fails with CrcMismatch,  *)
(* or with Invariant(6) when the flip breaks the escape chain; when the    *)
(* flip makes a 0x00, which ends the frame early, it may also fail with    *)
(* BadLength(0) or, the CRC of a run of 0x00 being 0x00, with a            *)
(* PostcardError.  The host's recv_response fails likewise.                *)
C11_BitFlip ==
    (flipped /\ decoder # "none") =>
        /\ ~decoded.ok
        /\ decoder = "cs_decode" => decoded.err.tag = "CrcMismatch"
        /\ decoder = "wire_decode" =>
               \/ decoded.err.tag = "CrcMismatch"
               \/ decoded.err = invariant(6)
               \/ /\ Len(frame.val) < Len(FrameSent)
                  /\ \/ decoded.err = bad_length(0)
                     \/ decoded.err.tag = "PostcardError"
        /\ decoder = "recv_response" =>
               \/ decoded.err \in {"Invalid packet CRC", "illegal cobs"}
               \/ /\ Len(frame.val) < Len(FrameSent)
                  /\ decoded.err \in {"missing CRC", "Failed to deserialize"}

(* a flipped bit of an escape code made wire_decode fail before the CRC *)
C11_Witness ==
    /\ flipped /\ decoder = "wire_decode" /\ framing = "wire"
    /\ decoded = Err(invariant(6))
    /\ Len(frame.val) = Len(wire_encode(ty, x, WIRE_MAX_SIZE(ty)).val)

(* C12: for each record type WIRE_MAX_SIZE is                              *)
(* cobs_max_length(POSTCARD_MAX_SIZE + 1) + 1 and CS_MAX_SIZE is           *)
(* POSTCARD_MAX_SIZE + 1 (9, 18 and 37 bytes of postcard for Command,      *)
(* Response and KeyResponse); wire_encode and cs_encode into exactly that  *)
(* capacity succeed for every value, and no frame an encoder returns (or   *)
(* send_command writes) is longer.                                         *)
C12_LengthBounds ==
    /\ <<POSTCARD_MAX_SIZE(ty), CS_MAX_SIZE(ty), WIRE_MAX_SIZE(ty)>> =
           (CASE ty = "Command" -> <<9, 10, 12>>
              [] ty = "Response" -> <<18, 19, 21>>
              [] ty = "KeyResponse" -> <<37, 38, 40>>)
    /\ cs_encode(ty, x, CS_MAX_SIZE(ty)).ok
    /\ Len(cs_encode(ty, x, CS_MAX_SIZE(ty)).val) <= CS_MAX_SIZE(ty)
    /\ wire_encode(ty, x, WIRE_MAX_SIZE(ty)).ok
    /\ Len(wire_encode(ty, x, WIRE_MAX_SIZE(ty)).val) <= WIRE_MAX_SIZE(ty)
    /\ (framing = "cs" /\ frame.ok /\ ~tampered) => Len(frame.val) <= CS_MAX_SIZE(ty)
    /\ (framing \in {"wire", "host"} /\ frame.ok /\ ~tampered) =>
           Len(frame.val) <= WIRE_MAX_SIZE(ty)
    /\ (framing \in {"cs", "wire"} /\ ~frame.ok) => frame = Err(buffer_size)

(* a full KeyUpdate fills the wire capacity of KeyResponse to the byte *)
C12_Witness ==
    /\ framing = "wire" /\ frame.ok /\ ~tampered
    /\ ty = "KeyResponse" /\ x.tag = "KeyUpdate" /\ Len(x.keys) = NUM_KEYS
    /\ Len(frame.val) = WIRE_MAX_SIZE(ty)

(***************************************************************************)
(* Properties of the keyboard (specification KeyboardSpec).                *)
(***************************************************************************)
(* the buffers a half can write to the bus for the key sets it can scan *)
ScannedFrames ==
    {cs_encode("KeyUpdate", Scan(p), CS_MAX_SIZE("KeyUpdate")).val : p \in SampleKeySets}

(* C13: the HID reporter task exists on the half whose strap pin reads     *)
(* Low (left) and on no other; the right half never hands a report to the  *)
(* HID writer and never latches an update for one, and what it writes to   *)
(* the inter-half bus is the encoding of a key set it scanned.             *)
C13_LeftOnly ==
    /\ "key_hid" \in tasks => (hand_pin = "Low" /\ this_hand = "Left")
    /\ (tasks # {} /\ hand_pin = "Low") => "key_hid" \in tasks
    /\ (tasks # {} /\ hand_pin = "High") =>
           /\ this_hand = "Right"
           /\ "key_hid" \notin tasks
           /\ "i2c_master" \in tasks
           /\ hid_last = None
           /\ hid_left = no_keys /\ hid_right = no_keys
           /\ left_signal = None
           /\ i2c_last.some => i2c_last.v \in ScannedFrames

(* the right half has written the scan of three pressed keys to the bus *)
(* and has handed no report to the HID writer                           *)
C13_Witness ==
    /\ this_hand = "Right" /\ hand_pin = "High"
    /\ i2c_last = Some(cs_encode("KeyUpdate", Scan({9, 29, 30}), 37).val)
    /\ hid_last = None

(* what a tick has to see of one side: the last update published since *)
(* the tick before, or else the latched one                            *)
C14_Seen(pubs, latched) == IF pubs # <<>> THEN pubs[Len(pubs)] ELSE latched

(* a turn of the HID reporter's loop: the only step that hands over a *)
(* report or empties a signal of the left half                        *)
C14_TickStep ==
    (/\ "key_hid" \in tasks
     /\ \/ hid_last' # hid_last
        \/ Len(pubs_left') < Len(pubs_left)
        \/ Len(pubs_right') < Len(pubs_right))
    => (/\ hid_last'.some
        /\ hid_last'.v.report =
               get_report(from_update(C14_Seen(pubs_left, hid_left),
                                      C14_Seen(pubs_right, hid_right)))
        /\ hid_left' = C14_Seen(pubs_left, hid_left)
        /\ hid_right' = C14_Seen(pubs_right, hid_right)
        /\ left_signal' = None /\ right_signal' = None)

(* C14: every tick of the HID reporter computes its report from, for each  *)
(* side, the last update published since the tick before, or the latched   *)
(* value (at first no keys) when there was none; a tick is always          *)
(* possible, whether or not an update is waiting.                          *)
C14_FreshOrLatched ==
    /\ [](hid_last = None => (hid_left = no_keys /\ hid_right = no_keys))
    /\ []("key_hid" \in tasks => ENABLED KeyHidTake)
    /\ [][C14_TickStep]_vars

(* after a tick that latched a left update: no new left update, and two *)
(* different right updates published, the first of them overwritten     *)
C14_Witness ==
    /\ hid_last.some /\ hid_left = Scan({19})
    /\ left_signal = None /\ pubs_left = <<>>
    /\ Len(pubs_right) = 2 /\ pubs_right[1] # pubs_right[2]
    /\ right_signal = Some(pubs_right[2])

(* the places (from 1) of the pressed keys in the KeyState *)
C15_Pressed(left, right) ==
    {left[j] + 1 : j \in 1..Len(left)} \cup {35 + right[j] + 1 : j \in 1..Len(right)}

(* the active table: the navigation table while right key K31 is down *)
C15_Table(P) == IF 35 + 31 \in P THEN NAV_MATRIX ELSE KEY_MATRIX

C15_Codes(P, T) == {i \in P : T[i].kind = "Code" /\ T[i].v # 0}

C15_Nth(S, n) == CHOOSE i \in S : Cardinality({m \in S : m < i}) = n - 1

C15_BitSet(P, T, b) == \E i \in P : T[i].kind = "Mod" /\ (T[i].v \div Pow2(b)) % 2 = 1

RECURSIVE C15_Modifier(_, _, _)
C15_Modifier(P, T, b) ==
    IF b > 7 THEN 0
    ELSE (IF C15_BitSet(P, T, b) THEN Pow2(b) ELSE 0) + C15_Modifier(P, T, b + 1)

C15_Keycodes(S, T) ==
    [n \in 1..6 |-> IF n <= Cardinality(S) THEN T[C15_Nth(S, n)].v ELSE 0]

C15_ReportOf(P, T) ==
    [keycodes |-> C15_Keycodes(C15_Codes(P, T), T),
     leds |-> 0,
     modifier |-> C15_Modifier(P, T, 0),
     reserved |-> 0]

(* C15: the report handed to the HID writer has the OR of the modifiers of *)
(* the pressed keys, the codes of the first six pressed keys that are      *)
(* neither modifiers nor KEY_NONE in the order of their places (left k at  *)
(* k, right k at 35 + k), zeros after them, never the rollover code, and   *)
(* reserved = 0.                                                           *)
C15_Report ==
    hid_last.some =>
        /\ hid_last.v.report =
               C15_ReportOf(C15_Pressed(hid_left, hid_right),
                            C15_Table(C15_Pressed(hid_left, hid_right)))
        /\ hid_last.v.report.reserved = 0
        /\ \A n \in 1..6 : hid_last.v.report.keycodes[n] # 1

(* eight codes and two modifiers are down: R of the left half and 6 7 8 9 *)
(* 0 of the right are reported, EQUAL and RIGHTBRACE are dropped          *)
C15_Witness ==
    /\ hid_left = Scan({9, 29, 30}) /\ hid_right = Scan({1, 2, 3, 4, 5, 6, 7})
    /\ hid_last.some
    /\ hid_last.v.report.modifier = 3
    /\ hid_last.v.report.keycodes = <<21, 35, 36, 37, 38, 39>>

(***************************************************************************)
(* Properties of the deferred logger (specification LoggerSpec).           *)
(***************************************************************************)
C16_TrapStep ==
    (log_depth = 1 /\ log_depth' = 2)
    => (/\ TAKEN
        /\ log_panic'
        /\ UNCHANGED <<log_buf, log_sig, log_count, log_writes, log_tx>>)

C16_NoBytes ==
    log_depth >= 2 => UNCHANGED <<log_buf, log_sig, log_count, log_writes, log_tx>>

(* C16: an acquire entered while an earlier acquire has not been released  *)
(* panics, writes nothing to the log ring, and nothing is written after it. *)
C16_ReentranceTraps ==
    /\ [](log_depth >= 2 => log_panic)
    /\ [](log_depth = 1 => TAKEN)
    /\ [][C16_TrapStep]_vars
    /\ [][C16_NoBytes]_vars

(* a record had written bytes when acquire was entered again *)
C16_Witness ==
    /\ log_panic /\ log_depth = 2 /\ TAKEN
    /\ log_count > 0 /\ Len(log_buf) = log_count

(* the bytes sent, the bytes about to be sent, the bytes still in the ring *)
LogOut ==
    Flatten(log_tx) \o (IF log_pc = "write" THEN log_send ELSE <<>>) \o log_buf

(* C17 as stated: every byte appended is sent or waits to be sent, in the *)
(* order of its production.                                               *)
C17_AsStated == LogOut = Ordinals(0, log_count)

(* out holds bytes that were produced, in the order of their production, *)
(* none twice; all of them unless the ring has overflowed                *)
C17_InOrder(out) ==
    /\ \A i \in 1..Len(out) : out[i] \in 1..log_count
    /\ \A i \in 1..Len(out) - 1 : out[i] < out[i + 1]
    /\ ~log_lost => out = Ordinals(0, log_count)

(* C17: the bytes leave in the order of their production and none twice;  *)
(* the ring holds the newest bytes; none is left out unless a write found *)
(* the ring full and pushed out the oldest unsent bytes.                  *)
C17_FifoOrder ==
    /\ C17_InOrder(LogOut)
    /\ log_buf = Ordinals(log_count - Len(log_buf), Len(log_buf))

(* the second packet starts well after the end of the first: the bytes *)
(* between them were pushed out of the full ring                       *)
C17_Witness ==
    /\ log_lost
    /\ Len(log_tx) >= 2
    /\ Len(log_tx[1].bytes) = 64 /\ log_tx[1].bytes[64] = 64
    /\ log_tx[2].bytes # <<>> /\ log_tx[2].bytes[1] > 65

C18_TakeStep ==
    (log_pc = "woken" /\ log_pc' # "woken")
    => (/\ log_pc' = "write"
        /\ Len(log_send') = (IF Len(log_buf) < 64 THEN Len(log_buf) ELSE 64)
        /\ log_buf = log_send' \o log_buf'
        /\ log_tx' = log_tx)

C18_WriteStep ==
    (log_pc = "write" /\ log_pc' # "write")
    => (/\ Len(log_tx') = Len(log_tx) + 1
        /\ SubSeq(log_tx', 1, Len(log_tx)) = log_tx
        /\ log_tx'[Len(log_tx')].bytes = log_send
        /\ log_pc' = (IF Len(log_send) = 64 /\ log_left = 0 THEN "zlp" ELSE "wait"))

C18_ZlpStep ==
    (log_pc = "zlp" /\ log_pc' # "zlp")
    => (/\ Len(log_tx') = Len(log_tx) + 1
        /\ SubSeq(log_tx', 1, Len(log_tx)) = log_tx
        /\ log_tx'[Len(log_tx')].bytes = <<>>
        /\ log_pc' = "wait")

C18_OnlyDrain ==
    (log_tx' # log_tx \/ Len(log_buf') < Len(log_buf))
    => log_pc \in {"woken", "write", "zlp"}

(* C18: once woken the drain task moves the first min(length, 64) bytes of *)
(* the ring into one packet and sends it; when the packet has 64 bytes and *)
(* the drain left the ring empty it sends one empty packet next; then it   *)
(* waits for the signal again.                                             *)
C18_DrainStep ==
    [][C18_TakeStep /\ C18_WriteStep /\ C18_ZlpStep /\ C18_OnlyDrain]_vars

(* a packet of 64 bytes that emptied the ring, then the empty packet *)
C18_Witness ==
    /\ Len(log_tx) = 2
    /\ Len(log_tx[1].bytes) = 64
    /\ log_tx[2].bytes = <<>>
    /\ log_pc = "wait" /\ log_left = 0

(***************************************************************************)
(* Properties of the firmware upload (specification FlashSpec).            *)
(***************************************************************************)
(* the host has announced n bytes, sent the ceil(n/8) Data commands that  *)
(* follow, and the server has taken every frame and is back in its loop   *)
C20_UploadDone ==
    /\ hist # <<>> /\ hist[1].kind = "flash"
    /\ Len(hist) = 1 + CeilDiv8(hist[1].count)
    /\ DataItems(2, Len(hist))
    /\ wire = <<>> /\ coms_buf = <<>> /\ pc = "idle"

(* C20 as stated: once the n announced bytes have been received, the *)
(* device has sent Ack(AckFlashFw).                                  *)
C20_AsStated ==
    C20_UploadDone => \E i \in 1..Len(tx) : HostReads(i) = Ok(Ack("AckFlashFw"))

(***************************************************************************)
(* Properties of the firmware session (specification FirmwareSpec).        *)
(***************************************************************************)
(* the callers whose FirmwareSession is alive *)
C19_Sessions == {c \in Callers : fw_pc[c] \in {"held", "finish"}}

(* the messages of one caller are next to each other in what was sent *)
C19_NotInterleaved(sent) ==
    \A i, j, k \in 1..Len(sent) :
        (i < j /\ j < k /\ sent[i].from = sent[k].from) => sent[j].from = sent[i].from

C19_State ==
    /\ Cardinality(C19_Sessions) <= 1
    /\ \A c \in C19_Sessions : fw_guard = c
    /\ C19_NotInterleaved(fw_sent)
    /\ Len(fw_chan) <= Len(fw_sent)
    /\ \A i \in 1..Len(fw_chan) :
           fw_chan[i] = fw_sent[Len(fw_sent) - Len(fw_chan) + i].message

(* lock returns a session to a caller only while no other session is alive *)
C19_LockStep ==
    \A c \in Callers :
        (fw_pc[c] = "lock" /\ fw_pc'[c] = "held") => C19_Sessions = {}

(* C19: at most one firmware session is alive at any time and it holds the *)
(* mutex; lock returns only while no session is alive, so a second caller  *)
(* waits for the first session to be dropped; the messages of two sessions *)
(* are never interleaved in the channel.                                   *)
C19_OneSession == []C19_State /\ [][C19_LockStep]_vars

(* caller 2 has sent Begin, a block and Finish and dropped its session; *)
(* caller 1, which had to wait, now holds one and has sent Begin        *)
C19_Witness ==
    /\ fw_pc[2] = "gone" /\ fw_pc[1] = "held" /\ fw_guard = 1
    /\ Len(fw_sent) = 4
    /\ fw_sent[1] = [from |-> 2, message |-> FwBegin]
    /\ fw_sent[2].from = 2 /\ fw_sent[2].message.cmd = "Block"
    /\ fw_sent[3] = [from |-> 2, message |-> FwFinish]
    /\ fw_sent[4] = [from |-> 1, message |-> FwBegin]

(***************************************************************************)
(* Properties of the inter-half bus (specification BusSpec).               *)
(***************************************************************************)
(* what the bus master has written: one buffer for each update it took, in *)
(* the order taken, but for the update whose write is still under way       *)
C21_AtMostOnce ==
    /\ Len(i2c_taken) <= Len(pubs_right)
    /\ Len(i2c_tx) = Len(i2c_taken) - (IF i2c_pc = "write" THEN 1 ELSE 0)
    /\ \A k \in 1..Len(i2c_tx) :
           i2c_tx[k].buffer = cs_encode("KeyUpdate", i2c_taken[k], CS_MAX_SIZE("KeyUpdate")).val

(* a step of the bus master: it takes what the signal holds and leaves it  *)
(* empty, or it finishes one write, after which it waits for the signal    *)
(* again and has not signalled anything itself                             *)
C21_MasterStep ==
    /\ i2c_taken' # i2c_taken =>
           /\ i2c_pc = "wait" /\ right_signal.some
           /\ i2c_taken' = Append(i2c_taken, right_signal.v)
           /\ right_signal' = None
           /\ i2c_tx' = i2c_tx
    /\ i2c_tx' # i2c_tx =>
           /\ i2c_pc = "write" /\ i2c_pc' = "wait"
           /\ Len(i2c_tx') = Len(i2c_tx) + 1
           /\ i2c_taken' = i2c_taken
           /\ right_signal' = right_signal

(* the loop is never over and never stuck: it waits for the signal, or a   *)
(* write is under way that any result completes                            *)
C21_Running ==
    "i2c_master" \in tasks =>
        /\ i2c_pc \in {"wait", "write"}
        /\ (i2c_pc = "wait" /\ right_signal.some) => ENABLED I2cMasterRun
        /\ i2c_pc = "write" => ENABLED I2cMasterWrite("Err")

(* C21: the bus master writes each update it took from its signal at most  *)
(* once: after a write, failed or not, it does not write that update again *)
(* but waits for the next signal, and no bus error ends or blocks its loop *)
C21_NoRetry == []C21_AtMostOnce /\ []C21_Running /\ [][C21_MasterStep]_vars

(* two updates were taken; the write of the first failed, the second was   *)
(* written after it                                                        *)
C21_Witness ==
    /\ Len(i2c_tx) = 2
    /\ i2c_tx[1].result = "Err"
    /\ i2c_tx[2].result = "Ok"
    /\ i2c_tx[1].buffer # i2c_tx[2].buffer
    /\ i2c_pc = "wait"

C22_Decoded(event) == cs_decode("KeyUpdate", event.val.buffer)

C22_GoodWrite(event) ==
    event.ok /\ event.val.cmd = "Write" /\ C22_Decoded(event).ok

(* a step on the half that is bus slave: RIGHT_SIGNAL gets a value only    *)
(* from a Write whose payload decodes, the value decoded; the reporter's   *)
(* latched value changes only by taking the signal; any other event leaves *)
(* the signals and what the reporter holds as they were                    *)
C22_SlaveStep ==
    "i2c_slave" \in tasks =>
        /\ right_signal' # right_signal =>
               \/ right_signal' = None /\ pubs_right' = <<>>
               \/ /\ C22_GoodWrite(i2c_event')
                  /\ right_signal' = Some(C22_Decoded(i2c_event').val)
        /\ hid_right' # hid_right => right_signal.some /\ hid_right' = right_signal.v
        /\ (i2c_event' \notin {i2c_event, Err("none")} /\ ~C22_GoodWrite(i2c_event')) =>
               UNCHANGED <<left_signal, right_signal, hid_left, hid_right, hid_last,
                           pubs_left, pubs_right>>

(* the slave listens whatever the last event was *)
C22_Listening == "i2c_slave" \in tasks => ENABLED I2cSlaveRun(Err("Abort"))

(* C22: on the bus slave only a Write whose payload passes cs_decode       *)
(* signals RIGHT_SIGNAL; GeneralCall, Read, WriteRead, bus errors and      *)
(* Writes that fail the CRC or the deserialization change neither the      *)
(* signal nor the reporter's latched update, and the slave keeps listening *)
C22_OnlyGoodWrites == []C22_Listening /\ [][C22_SlaveStep]_vars

(* a Write with a wrong CRC arrived after a good one: the signal still     *)
(* holds the good one                                                      *)
C22_Witness ==
    /\ i2c_event = Ok([cmd |-> "Write", buffer |-> <<1, 19, 0>>])
    /\ right_signal = Some(Scan({19}))
    /\ hid_right = Scan({9, 29, 30})

(***************************************************************************)
(* Properties of the roles of the two halves (specification BusSpec).      *)
(***************************************************************************)
(* C25 as stated: the half that is bus master runs the HID reporter, the   *)
(* half that is bus slave only supplies keys                               *)
C25_AsStated ==
    \/ {"i2c_master", "key_hid"} \subseteq tasks /\ "i2c_slave" \notin tasks
    \/ "i2c_slave" \in tasks /\ tasks \cap {"i2c_master", "key_hid"} = {}

C25_Role ==
    \/ /\ hand_pin = "Low" /\ this_hand = "Left"
       /\ tasks \cap {"i2c_master", "i2c_slave", "key_hid"} = {"i2c_slave", "key_hid"}
       /\ i2c_taken = <<>> /\ i2c_tx = <<>>
    \/ /\ hand_pin = "High" /\ this_hand = "Right"
       /\ tasks \cap {"i2c_master", "i2c_slave", "key_hid"} = {"i2c_master"}
       /\ hid_last = None /\ i2c_event = Err("none")

C25_Kept == UNCHANGED <<hand_pin, this_hand, tasks>>

(* C25, amended: the strap pin read at boot selects one of two roles for   *)
(* good: low, the left half, bus slave and HID reporter, which never       *)
(* writes the bus; high, the right half, bus master and source of keys,    *)
(* which sends no HID report                                               *)
C25_FixedRole == []C25_Role /\ [][C25_Kept]_vars

(* the reporter is the bus slave: it has reported keys that came in by a   *)
(* Write of the other half                                                 *)
C25_Witness ==
    /\ hand_pin = "Low"
    /\ C22_GoodWrite(i2c_event)
    /\ hid_last.some
    /\ hid_right = Scan({9, 29, 30})

(***************************************************************************)
(* Properties of the matrix scan (specification MatrixSpec).               *)
(***************************************************************************)
(* the pins at each place of the scan: the column of the loop is high from *)
(* its set_high to its set_low and no other is; none is high at the top of *)
(* the loop, before a set_high, at the publishing and during the sleep     *)
C23_Pins ==
    /\ Cardinality(col_high) <= 1
    /\ col_high \subseteq 0..(NUM_COLS - 1)
    /\ scan_pc \in {"settle", "low"} => col_high = {scan_col}
    /\ scan_pc \in {"start", "high", "publish", "sleep"} => col_high = {}

(* a column is driven high only when every column is low, the one before   *)
(* it having been driven low; the rows sampled while column c is high are  *)
(* recorded with c as their column                                         *)
C23_PinStep ==
    /\ (col_high' # col_high /\ col_high' # {}) =>
           /\ col_high = {}
           /\ col_high' = {scan_col}
    /\ (scan_pc = "low" /\ scan_pc' = "high") =>
           /\ col_high = {scan_col} /\ col_high' = {}
           /\ scan_col' = scan_col + 1
    /\ (scan_pc = "settle" /\ scan_pc' = "low") =>
           /\ col_high = {scan_col}
           /\ Len(scan_vec') = Len(scan_vec) + Cardinality(scan_rows')
           /\ \A i \in (Len(scan_vec) + 1)..Len(scan_vec') :
                  /\ scan_vec'[i] % NUM_COLS = scan_col
                  /\ (scan_vec'[i] \div NUM_COLS) \in scan_rows'

(* C23: during a scan at most one column pin is high at any moment: a      *)
(* column is driven low before the next is driven high, the rows sampled   *)
(* while column c is high are recorded with column c, and every column is  *)
(* low while the scanner sleeps                                            *)
C23_OneColumn == []C23_Pins /\ [][C23_PinStep]_vars

(* the last column is high and keys of the first and of the last row of    *)
(* earlier columns are recorded                                            *)
C23_Witness ==
    /\ scan_pc = "low" /\ scan_col = NUM_COLS - 1
    /\ col_high = {NUM_COLS - 1}
    /\ scan_rows = {0, 4}
    /\ \E i, j \in 1..Len(scan_vec) : scan_vec[i] = 0 /\ scan_vec[j] = 4 * NUM_COLS + 5

(* what the scanner signalled last *)
C24_Update == IF this_hand = "Left" THEN left_signal ELSE right_signal

C24_WellFormed(update) ==
    /\ Len(update) <= 35
    /\ \A i, j \in 1..Len(update) : update[i] = update[j] => i = j
    /\ \A i \in 1..Len(update) :
           /\ update[i] \in 0..34
           /\ \E row \in 0..4, col \in 0..6 : update[i] = row * 7 + col

(* no push fails: every row found high adds a coordinate *)
C24_PushStep ==
    scan_vec' # scan_vec /\ scan_vec' # <<>> =>
        Len(scan_vec') = Len(scan_vec) + Cardinality(scan_rows')

(* C24: every KeyUpdate the scanner publishes holds each coordinate at     *)
(* most once, every coordinate is row * NUM_COLS + col with row < 5 and    *)
(* col < 7, so below 35, and no push into the vector of capacity 35 fails, *)
(* whatever the row pins read                                              *)
C24_Coordinates ==
    /\ [](C24_WellFormed(scan_vec) /\ (C24_Update.some => C24_WellFormed(C24_Update.v)))
    /\ [][C24_PushStep]_vars

(* every row pin read high at every column: the update holds all 35 keys *)
C24_Witness ==
    /\ C24_Update.some
    /\ Len(C24_Update.v) = NUM_KEYS
    /\ scan_pc = "sleep"


(***************************************************************************)
(* Properties of the command server on a failing endpoint (UsbErrSpec).    *)
(***************************************************************************)
(* C26 as stated: after a read or write error of the primary endpoint the  *)
(* command-server loop is still at recv_cmd, in its idle loop or in its    *)
(* echo session, ready to receive, decode and answer the next frame.       *)
C26_AsStated == usb_err # "none" => InRecvCmd

C26_Parked == usb_err # "none" => pc = "parked"

C26_ParkedStep ==
    pc = "parked" =>
        UNCHANGED <<coms_buf, lost_bytes, returns, tx, pc, iters, echo_at, echo_tx, usb_err>>

(* C26, amended: a read or write error of the primary endpoint parks the   *)
(* serial task for good: from then on the server reads nothing from the    *)
(* endpoint, returns no frame and writes no packet, whatever the host      *)
(* sends.                                                                  *)
C26_ParkedForGood == []C26_Parked /\ [][C26_ParkedStep]_vars

(* the answer to a frame failed to be written after earlier answers, and a *)
(* later frame of the host waits complete in the ring                      *)
C26_Witness ==
    /\ usb_err = "write" /\ pc = "parked"
    /\ tx # <<>>
    /\ FirstZero(coms_buf) # 0

(***************************************************************************)
(* Properties of a session with rejected frames (SessionSpec).             *)
(***************************************************************************)
(* what recv_cmd returned since the announce of the last session *)
SinceAnnounce == SubSeq(returns, echo_at + 1, Len(returns))

IsDataCmd(res) == IF res.ok THEN res.val.tag = "Data" ELSE FALSE

DataReturned == Cardinality({i \in 1..Len(SinceAnnounce) : IsDataCmd(SinceAnnounce[i])})

(* C30 as stated: a rejected frame does not use up one of the expected     *)
(* chunks, the session of Echo{n} is open as long as fewer than ceil(n/8)  *)
(* Data commands have been received in it.                                 *)
C30_AsStated ==
    (echo_at > 0 /\ DataReturned < CeilDiv8(returns[echo_at].val.count)) => pc = "echo"

(* the reason of the Nack that answers a rejected frame *)
C30_Reason(res) == IF res.ok THEN Unexpected ELSE res.err

(* a step of the session that returns something else than a Data command *)
C30_RejectStep ==
    (pc = "echo" /\ returns' # returns /\ ~IsDataCmd(returns'[Len(returns')]))
    => (/\ Len(tx') = Len(tx) + 1
        /\ SubSeq(tx', 1, Len(tx)) = tx
        /\ recv_response("Response", tx'[Len(tx')])
               = Ok(Nack(C30_Reason(returns'[Len(returns')])))
        /\ C30_Reason(returns'[Len(returns')]).tag
               \in {"Unexpected", "PacketErr", "BufferOverflow"}
        /\ iters' = iters - 1
        /\ pc' = IF iters' = 0 THEN "idle" ELSE "echo")

(* the frames of a session, Data commands or not, count against ceil(n/8) *)
C30_Budget ==
    echo_at > 0 =>
        LET k == CeilDiv8(returns[echo_at].val.count)
        IN  IF pc = "echo"
            THEN iters >= 1 /\ iters + Len(SinceAnnounce) = k
            ELSE Len(SinceAnnounce) >= k

(* C30, amended: inside an Echo{n} chunk stream a frame that is not a Data *)
(* command, or fails to decode, or follows a ring overflow, is answered    *)
(* with exactly one Nack (Unexpected, PacketErr, BufferOverflow) and uses  *)
(* up one of the ceil(n/8) iterations: the session ends when ceil(n/8)     *)
(* frames, echoed or rejected, have been received.                         *)
C30_RejectedCounts == []C30_Budget /\ [][C30_RejectStep]_vars

(* an Echo{9} session that is over after a frame rejected for a ring *)
(* overflow and one echoed Data command                              *)
C30_Witness ==
    /\ echo_at > 0 /\ returns[echo_at].val.count = 9
    /\ Len(returns) = echo_at + 2
    /\ returns[echo_at + 1] = Err(BufferOverflow)
    /\ IsDataCmd(returns[echo_at + 2])
    /\ Len(tx) = echo_tx + 3
    /\ HostReads(echo_tx + 2) = Ok(Nack(BufferOverflow))
    /\ HostReads(echo_tx + 3) = Ok(Data(returns[echo_at + 2].val.data))
    /\ pc = "idle"

(***************************************************************************)
(* Properties of the host's echo against the device (EchoSpec).            *)
(***************************************************************************)
(* the items an earlier run of the utility wrote *)
C27_Before ==
    IF hist = <<>> THEN 0
    ELSE IF hist[1] \in {EchoItem(StaleCount), [kind |-> "garbage", bytes |-> PartialFrame]}
    THEN 1
    ELSE 0

(* the device was idle with an empty ring when the echo started *)
C27_Fresh == C27_Before = 0

(* once the host waits for responses it has written Echo{L} and then the *)
(* ceil(L/8) chunks of the message, the last one padded with zeros       *)
C27_Sent ==
    host_pc \in {"recv_hdr", "recv_data", "done", "failed"} =>
        LET b == C27_Before
            len == Len(host_msg)
        IN  /\ Len(hist) = b + 1 + CeilDiv8(len)
            /\ hist[b + 1].cmd = EchoMsg(len)
            /\ \A j \in 1..CeilDiv8(len) :
                   /\ hist[b + 1 + j].cmd.tag = "Data"
                   /\ \A m \in 1..8 :
                          hist[b + 1 + j].cmd.data[m]
                              = IF 8 * (j - 1) + m <= len THEN host_msg[8 * (j - 1) + m] ELSE 0

(* against a device that was idle the echo does not fail, and when it is *)
(* over it has read one Echo{L} header and ceil(L/8) Data responses and  *)
(* prints the message                                                    *)
C27_Received ==
    C27_Fresh =>
        /\ host_pc # "failed"
        /\ host_pc = "done" =>
               /\ host_result = Some(Ok(host_msg))
               /\ host_content = host_msg
               /\ host_count = Len(host_msg)
               /\ Len(tx) = 1 + CeilDiv8(host_count)
               /\ host_pos = Len(Concat(tx))
               /\ HostReads(1) = Ok(EchoMsg(host_count))
               /\ \A j \in 1..CeilDiv8(host_count) :
                      HostReads(1 + j) = Ok(Data(hist[1 + j].cmd.data))

(* a result is printed or an error returned, never both, and only at the end *)
C27_Results ==
    /\ host_pc = "done" => (host_result = Some(Ok(host_content))
                            /\ Len(host_content) = host_count)
    /\ host_pc = "failed" => (host_result.some /\ ~host_result.v.ok)
    /\ host_pc \notin {"done", "failed"} => host_result = None

C27_Expected(resp) ==
    IF resp.ok THEN resp.val.tag = (IF host_pc = "recv_hdr" THEN "EchoMsg" ELSE "Data")
    ELSE FALSE

(* the host reads one response: a Nack or another response in the place of *)
(* the expected one makes the echo fail, the expected one does not         *)
C27_ReadStep ==
    host_pos' # host_pos =>
        /\ host_pc \in {"recv_hdr", "recv_data"}
        /\ host_pos' = host_pos + FirstZero(PortRest)
        /\ IF C27_Expected(recv_response("Response", PortRest))
           THEN host_pc' \in {"recv_data", "done"}
           ELSE host_pc' = "failed" /\ host_content' = host_content

(* once over, the echo does nothing more *)
C27_OverStep == host_pc \in {"done", "failed"} => UNCHANGED host_vars

(* C27: the host sends Echo{L} and ceil(L/8) Data frames, the last one     *)
(* padded with zeros; it expects one Echo{count} header and ceil(count/8)  *)
(* Data responses; against an idle device the bytes it reconstructs, each  *)
(* chunk cut so that the total is count, are the message; a Nack or        *)
(* another response in the place of an expected one makes it fail with an  *)
(* error and print nothing.                                                *)
C27_HostEcho ==
    /\ []C27_Sent /\ []C27_Received /\ []C27_Results
    /\ [][C27_ReadStep /\ C27_OverStep]_vars

(* the message of 9 bytes came back whole, in two chunks *)
C27_Witness ==
    /\ C27_Fresh /\ host_pc = "done"
    /\ Len(host_msg) = 9 /\ host_result = Some(Ok(host_msg))
    /\ Len(tx) = 3

(***************************************************************************)
(* Properties of the firmware-container analyzer (Uf2Spec).                *)
(***************************************************************************)
(* the blocks of the file without those flagged NotMainFlash, in file order *)
Unflagged(blocks) ==
    SelectSeq(blocks, LAMBDA b : (b.flags_data \div NotMainFlash) % 2 = 0)

(* the places where a run starts: the first block, and every block that *)
(* does not start where the block before it ends                        *)
RunStarts(bs) ==
    {i \in 1..Len(bs) :
        IF i = 1 THEN TRUE
        ELSE bs[i - 1].target_addr + bs[i - 1].payload_size # bs[i].target_addr}

(* the last block of the run that starts at place i *)
RunEnd(bs, i) ==
    CHOOSE j \in i..Len(bs) :
        /\ \A m \in (i + 1)..j : m \notin RunStarts(bs)
        /\ j = Len(bs) \/ (j + 1) \in RunStarts(bs)

RECURSIVE SumOfSizes(_, _, _)
SumOfSizes(bs, i, j) == IF i > j THEN 0 ELSE bs[i].payload_size + SumOfSizes(bs, i + 1, j)

(* the n-th place where a run starts *)
NthStart(bs, n) ==
    CHOOSE i \in RunStarts(bs) : Cardinality({j \in RunStarts(bs) : j <= i}) = n

(* one (start, length) range per maximal run, in file order *)
Ranges(bs) ==
    [n \in 1..Cardinality(RunStarts(bs)) |->
        <<bs[NthStart(bs, n)].target_addr,
          SumOfSizes(bs, NthStart(bs, n), RunEnd(bs, NthStart(bs, n)))>>]

(* C28: the analyzer walks the blocks in file order and prints one (start, *)
(* length) range per maximal run of consecutive blocks with target_addr +  *)
(* payload_size = next.target_addr: contiguous blocks give one range whose *)
(* length is the sum of their payload sizes, a gap starts a new range,     *)
(* every range is printed once; the four contiguous blocks of 476, 476,    *)
(* 476 and 100 bytes from 0x10000000 give the one range (0x10000000,       *)
(* 1528). Stated for the files whose first block is a block of the main    *)
(* flash, with the blocks flagged NotMainFlash left out of the walk.       *)
C28_Walked(ranges) ==
    /\ uf2_pc = "done" => uf2_out = ranges
    /\ uf2_pc = "loop" =>
           /\ Len(uf2_out) < Len(ranges)
           /\ \A n \in 1..Len(uf2_out) : uf2_out[n] = ranges[n]

C28_Coalesced ==
    /\ uf2_pc = "first" => uf2_out = <<>>
    /\ (uf2_pc \in {"loop", "done"} /\ ~Filtered(uf2_blocks[1]))
           => C28_Walked(Ranges(Unflagged(uf2_blocks)))
    /\ (uf2_pc = "done" /\ uf2_blocks = ExampleFile) => uf2_out = <<<<FlashBase, 1528>>>>

(* the analyzer is done with the four contiguous blocks of the example *)
C28_Witness ==
    /\ uf2_pc = "done"
    /\ uf2_blocks = ExampleFile
    /\ uf2_out = <<<<FlashBase, 1528>>>>

(* C29 as stated: every block flagged NotMainFlash is skipped wherever it  *)
(* is in the file, the first place included: the ranges printed are those  *)
(* of the file without its flagged blocks.                                 *)
C29_AsStated ==
    uf2_pc = "done" => uf2_out = Ranges(Unflagged(uf2_blocks))

(***************************************************************************)
(* Properties of the decoders on buffers as they come (DecodeSpec).        *)
(***************************************************************************)
(* the escape chain of body stays inside body: every code byte but a 1 *)
(* has code - 1 bytes after it                                         *)
RECURSIVE C31_ChainOk(_, _)
C31_ChainOk(body, si) ==
    IF si > Len(body) THEN TRUE
    ELSE IF body[si] # 1 /\ si - 1 + body[si] > Len(body) THEN FALSE
    ELSE C31_ChainOk(body, si + body[si])

(* the content a well-formed chain of two bytes at most stands for *)
C31_EmptyContent(body) == body \in {<<>>, <<1>>}

C31_Class(buf) ==
    IF buf = <<>> THEN invariant(5)
    ELSE IF buf[Len(buf)] # 0 THEN invariant(5)
    ELSE IF ~C31_ChainOk(SubSeq(buf, 1, Len(buf) - 1), 1) THEN invariant(6)
    ELSE bad_length(0)

(* C31: wire_decode classifies malformed input: a buffer that is empty or  *)
(* does not end in 0x00 gives Invariant(5), a malformed escape chain gives *)
(* Invariant(6), a frame whose content is empty, such as [0x00], gives     *)
(* BadLength; cs_decode of an empty buffer gives BadLength; in all these   *)
(* cases an error is returned and no value.                                *)
C31_Classified ==
    /\ decoder = "wire_decode" =>
           LET buf == frame.val
               body == SubSeq(buf, 1, Len(buf) - 1)
           IN  /\ (buf = <<>> \/ buf[Len(buf)] # 0 \/ ~C31_ChainOk(body, 1)
                   \/ C31_EmptyContent(body))
                      => decoded = Err(C31_Class(buf))
               /\ (~decoded.ok /\ decoded.err.tag = "Invariant") =>
                      (/\ decoded.err.kind \in {5, 6}
                       /\ decoded.err = C31_Class(buf))
               /\ (~decoded.ok /\ decoded.err.tag = "BadLength") => C31_EmptyContent(body)
    /\ decoder = "cs_decode" =>
           /\ frame.val = <<>> <=> decoded = Err(bad_length(0))
           /\ ~decoded.ok => decoded.err.tag # "Invariant"

(* wire_decode was given a frame whose escape chain points past its end *)
C31_Witness ==
    /\ decoder = "wire_decode"
    /\ frame.val = <<3, 1, 0>>
    /\ decoded = Err(invariant(6))

(***************************************************************************)
(* Properties of the receive ring (specification Spec).                    *)
(***************************************************************************)
(* a return of recv_cmd takes from the ring the bytes up to and with the *)
(* first delimiter and leaves the bytes after it as they are             *)
C32_ReturnStep ==
    returns' # returns =>
        /\ FirstZero(coms_buf) # 0
        /\ Len(returns') = Len(returns) + 1
        /\ coms_buf' = SubSeq(coms_buf, FirstZero(coms_buf) + 1, Len(coms_buf))
        /\ wire' = wire

(* a packet is read only when the ring holds no delimiter, and a step that *)
(* reads none leaves the ring alone                                        *)
C32_ReadStep ==
    /\ wire' # wire /\ hist' = hist => FirstZero(coms_buf) = 0 /\ returns' = returns
    /\ (returns' = returns /\ (wire' = wire \/ hist' # hist)) => coms_buf' = coms_buf

(* the ring holds at most 2 * MTU bytes; as long as nothing overflowed it *)
(* holds, before the bytes still on the link, the bytes of the stream     *)
(* after the pieces returned so far                                       *)
C32_Held ==
    /\ Len(coms_buf) <= 2 * MAX_PACKET_SIZE
    /\ NoLongGarbage =>
           /\ Len(returns) <= Len(Pieces(Flatten(hist)))
           /\ Concat(SubSeq(Pieces(Flatten(hist)), 1, Len(returns))) \o coms_buf \o wire
                  = Flatten(hist)

(* C32: every return of recv_cmd, Ok, PacketErr or BufferOverflow, removes *)
(* from the ring exactly the bytes up to and with the first 0x00 and       *)
(* leaves the later bytes in place and in order; frames that came in one   *)
(* packet are returned by successive calls, in arrival order, without a    *)
(* packet being read in between; the ring never holds more than 2 * MTU =  *)
(* 128 bytes.                                                              *)
C32_RingKept == []C32_Held /\ [][C32_ReturnStep /\ C32_ReadStep]_vars

(* one frame was returned and the ring holds the two frames after it, *)
(* whole: the next two calls return them without a packet being read  *)
C32_Witness ==
    /\ Len(returns) = 1 /\ Len(hist) = 3 /\ FramesOnly(3)
    /\ wire = <<>>
    /\ coms_buf = hist[2].bytes \o hist[3].bytes

(***************************************************************************)
(* Liveness of the log drain (specification LoggerFairSpec).               *)
(***************************************************************************)
(* no producer is inside a record and the logger has not trapped *)
C33_Quiet == ~TAKEN /\ ~log_panic

(* C33 as stated: under fair scheduling of the drain task every byte in    *)
(* the log ring is eventually taken out of it for transmission, also when  *)
(* no record is written afterwards: a ring that holds bytes while no       *)
(* producer is inside a record gets empty, unless a producer comes in.     *)
C33_AsStated == [](C33_Quiet /\ log_buf # <<>> => <>(log_buf = <<>> \/ ~C33_Quiet))

(***************************************************************************)
(* Zero-length packets of the log drain (specification FlushSpec).         *)
(***************************************************************************)
(* C34 as stated: the drain task sends a zero-length packet only right     *)
(* after a full packet of 64 bytes, in every interleaving of the           *)
(* producers, one that logs between the wake-up and the critical section   *)
(* and one that flushes an empty ring included.                            *)
C34_AsStated ==
    \A i \in 1..Len(log_tx) :
        log_tx[i].bytes = <<>> =>
            IF i = 1 THEN FALSE ELSE Len(log_tx[i - 1].bytes) = MAX_PACKET_SIZE

(***************************************************************************)
(* The logger's three phases (specification RecordSpec).                   *)
(***************************************************************************)
(* what holds in every state: the flag is up exactly while an acquire has  *)
(* no release yet; while it is up the critical section is active and the   *)
(* saved restore state is the one found by that acquire; while it is down  *)
(* the critical section is back to what the caller had, and the ring ends  *)
(* at the end of a record                                                  *)
C35_Held ==
    /\ TAKEN <=> log_depth >= 1
    /\ TAKEN => cs_held /\ CS_RESTORE = cs_outer /\ log_count >= rec_start
    /\ ~TAKEN => ~log_panic /\ cs_held = cs_outer /\ log_count = rec_done

(* bytes enter the ring only inside a record, under its critical section *)
C35_WriteStep == log_count' # log_count => TAKEN /\ cs_held /\ TAKEN' = (log_count' # rec_done')

(* the bytes of the record that is released, as far as the ring can hold   *)
(* them, are the end of the ring, in the order they were written           *)
C35_RecordAtEnd(buf, start, count) ==
    LET k == IF count - start < LOG_CAPACITY THEN count - start ELSE LOG_CAPACITY
    IN  /\ Len(buf) >= k
        /\ SubSeq(buf, Len(buf) - k + 1, Len(buf)) = Ordinals(count - k, k)

C35_ReleaseStep ==
    TAKEN /\ ~TAKEN' =>
        /\ cs_held' = CS_RESTORE
        /\ C35_RecordAtEnd(log_buf', rec_start, log_count')

(* the drain task takes bytes out only when no record is open *)
C35_TakeStep == log_send' # log_send \/ Len(log_buf') < Len(log_buf) =>
    IF log_count' = log_count THEN ~TAKEN /\ ~cs_held /\ log_count = rec_done ELSE log_lost'

(* C35: the TAKEN flag is true exactly between a successful acquire and    *)
(* its release; the critical section of acquire is held all that time and  *)
(* released with the restore state that acquire saved; the bytes of a      *)
(* record are contiguous in the ring, and the drain task never takes from  *)
(* a ring that ends inside a record.                                       *)
C35_Discipline ==
    []C35_Held /\ [][C35_WriteStep /\ C35_ReleaseStep /\ C35_TakeStep]_vars

(* a record of 64 bytes logged from inside the caller's own critical       *)
(* section, after the drain task sent the byte of an earlier record: the   *)
(* release left the caller's critical section active                       *)
C35_Witness ==
    /\ ~TAKEN /\ cs_outer /\ cs_held
    /\ rec_start = 1 /\ rec_done = 65
    /\ Len(log_tx) = 1
    /\ log_buf = Ordinals(1, 64)

(***************************************************************************)
(* Shutdown, from the command to the reset (specification ShutdownSpec).   *)
(***************************************************************************)
(* the run loop has taken a Reset or UsbDfu command (serial.rs 166-178);  *)
(* inside a data session such a frame is answered Nack(Unexpected) by     *)
(* recv_data and is no command of the run loop                            *)
C36_Commanded == pc \in {"shutdown", "halted"}

(* the USB task has disabled the device and signalled that it has *)
C36_UsbDone == usb_pc = "done" /\ ~usb_enabled

(* the command server has triggered what the command asked for *)
C36_Triggered ==
    /\ pc = "halted"
    /\ reset = (IF pending = "Reset" THEN "watchdog" ELSE "bootrom")

(* after the command no frame is taken from the ring, no packet is read *)
(* and nothing is written; the server never returns to its loop         *)
C36_FinalStep ==
    C36_Commanded =>
        /\ returns' = returns /\ coms_buf' = coms_buf /\ tx' = tx
        /\ wire' # wire => hist' # hist
        /\ C36_Commanded'
        /\ reset' # reset => C36_UsbDone

(* C36: once the run loop has taken a Reset or UsbDfu command, the USB    *)
(* task eventually disables the device and signals completion, also when  *)
(* the shutdown value was sent before the task's first poll; the command  *)
(* server then triggers the reset or the bootloader; after the command it *)
(* receives, decodes and answers no frame.                                *)
C36_Shutdown ==
    /\ [](C36_Commanded => <>C36_UsbDone)
    /\ [](C36_Commanded => <>C36_Triggered)
    /\ [][C36_FinalStep]_vars

(* the reset was triggered after the USB task was done, and the host had *)
(* sent more than the command that was taken                            *)
C36_Witness ==
    /\ C36_Triggered /\ C36_UsbDone
    /\ Len(returns) = 1
    /\ Len(hist) > 1

(***************************************************************************)
(* A stream written through a firmware session (specification BlockSpec).  *)
(***************************************************************************)
(* the buffer of the session holds whole writes, never more than a block, *)
(* and no append has failed                                               *)
C37_Buffer ==
    /\ Len(fw_data[1]) % DATA_COUNT = 0
    /\ Len(fw_data[1]) <= FLASH_WRITE_BLOCK
    /\ fw_pc[1] # "parked"

(* the messages sent, for a session started at offset o: the k-th (from *)
(* 0) is a Block at o + 4096 * k with the k-th slice of the stream and  *)
(* zeros up to 4096; only finish sends a Block that is not full, as the *)
(* last; Finish comes once, after the Blocks, with nothing left behind  *)
C37_Sent(sent, o) ==
    \A i \in 1..Len(sent) :
        IF sent[i].message.cmd = "Block"
        THEN /\ sent[i].message.offset = o + FLASH_WRITE_BLOCK * (i - 1)
             /\ sent[i].message.data # <<>>
             /\ sent[i].message.data =
                    Ordinals(FLASH_WRITE_BLOCK * (i - 1), Len(sent[i].message.data))
             /\ sent[i].message.zeros = FLASH_WRITE_BLOCK - Len(sent[i].message.data)
             /\ Len(sent[i].message.data) < FLASH_WRITE_BLOCK =>
                    /\ fw_calls[1] > 0
                    /\ i = Len(sent) \/ (i = Len(sent) - 1 /\ sent[Len(sent)] = FwFinishFrom(1))
        ELSE /\ sent[i] = FwFinishFrom(1)
             /\ i = Len(sent)
             /\ fw_calls[1] > 0
             /\ fw_data[1] = <<>>

C37_Blocks ==
    /\ fw_offset[1] - FLASH_WRITE_BLOCK * Len(SelectSeq(fw_sent, IsBlockSent)) \in FwOffsets
    /\ C37_Sent(fw_sent, fw_offset[1] - FLASH_WRITE_BLOCK * Len(SelectSeq(fw_sent, IsBlockSent)))
    /\ fw_data[1] = Ordinals(Len(SentData(fw_sent)), Len(fw_data[1]))
    /\ fw_pc[1] \in {"held", "gone"} /\ fw_calls[1] > 0 =>
           /\ fw_sent # <<>>
           /\ fw_sent[Len(fw_sent)] = FwFinishFrom(1)

(* a write adds its 8 bytes to what is sent or buffered and takes nothing *)
(* away; finish and the sends take nothing away and add nothing           *)
C37_KeptStep(before, after) ==
    /\ Len(before) <= Len(after)
    /\ SubSeq(after, 1, Len(before)) = before
    /\ Len(after) - Len(before) = (IF fw_data'[1] # fw_data[1] /\ fw_calls[1] = 0 /\ fw_calls'[1] = 0 /\ fw_pc[1] = "held"
                                   THEN DATA_COUNT ELSE 0)

C37_WriteStep == C37_KeptStep(SentData(fw_sent) \o fw_data[1], SentData(fw_sent') \o fw_data'[1])

(* C37: for a session started at offset o and fed 8-byte writes and then  *)
(* finish, the buffer is always a multiple of 8 and at most 4096 bytes    *)
(* long and no append fails; the k-th Block sent has offset o + 4096 * k  *)
(* and the k-th 4096-byte slice of the data, the last one zero-padded;    *)
(* finish sends a Block only for a non-empty buffer and then one Finish;  *)
(* no written byte is lost or duplicated.                                 *)
C37_Stream == [](C37_Buffer /\ C37_Blocks) /\ [][C37_WriteStep]_vars

(* 514 writes and finish at offset 4096: a full Block at 4096, a Block of *)
(* 16 bytes at 8192, Finish                                               *)
C37_Witness ==
    /\ Len(fw_sent) = 3
    /\ fw_sent[1].message = FirmwareBlock(Ordinals(0, FLASH_WRITE_BLOCK), FLASH_WRITE_BLOCK)
    /\ fw_sent[2].message =
           FirmwareBlock(Ordinals(FLASH_WRITE_BLOCK, 2 * DATA_COUNT), 2 * FLASH_WRITE_BLOCK)
    /\ fw_sent[3].message = FwFinish
    /\ fw_data[1] = <<>>

(***************************************************************************)
(* The firmware writer as a two-state machine (specification FirmwareSpec). *)
(***************************************************************************)
(* the messages the receiver has taken from the channel, in the order they *)
(* were sent                                                               *)
C38_Received ==
    [i \in 1..(Len(fw_sent) - Len(fw_chan)) |-> fw_sent[i].message]

(* the two-state machine of the claim run over a stream of messages: idle, *)
(* only Begin starts an update; updating, a Block is written, Begin is     *)
(* ignored, Finish ends the update and marks the firmware updated          *)
RECURSIVE C38_Machine(_, _, _, _)
C38_Machine(stream, updating, written, marked) ==
    IF stream = <<>>
    THEN [updating |-> updating, written |-> written, marked |-> marked]
    ELSE IF ~updating
         THEN C38_Machine(Tail(stream), Head(stream).cmd = "Begin", written, marked)
    ELSE IF Head(stream).cmd = "Block"
         THEN C38_Machine(Tail(stream), TRUE, Append(written, Head(stream)), marked)
    ELSE IF Head(stream).cmd = "Finish"
         THEN C38_Machine(Tail(stream), FALSE, written, marked + 1)
    ELSE C38_Machine(Tail(stream), TRUE, written, marked)

(* the receiver is where the machine is, unless an error of the updater  *)
(* has parked it, and has written what the machine writes: the Blocks    *)
(* between a Begin and the next Finish, in the order received            *)
C38_Follows(machine) ==
    /\ fw_flash = machine.written
    /\ fw_state # "parked" => (fw_state = "updating") = machine.updating
    /\ fw_chan = SubSeq([i \in 1..Len(fw_sent) |-> fw_sent[i].message],
                        Len(fw_sent) - Len(fw_chan) + 1, Len(fw_sent))

C38_InStep == C38_Follows(C38_Machine(C38_Received, FALSE, <<>>, 0))

(* the receiver takes the head of the channel; an update starts only with *)
(* a Begin taken while idle; it ends, and the firmware is marked updated, *)
(* only with a Finish taken while updating, once for that Finish; a write *)
(* is the Block just taken, while updating                                *)
C38_TakeStep ==
    (fw_state' # fw_state \/ fw_flash' # fw_flash) =>
        /\ fw_chan # <<>> /\ fw_chan' = Tail(fw_chan)
        /\ fw_state = "idle" => Head(fw_chan) = FwBegin /\ fw_flash' = fw_flash
        /\ fw_state = "updating" /\ fw_flash' = fw_flash => Head(fw_chan) = FwFinish
        /\ fw_flash' # fw_flash =>
               /\ fw_state = "updating" /\ Head(fw_chan).cmd = "Block"
               /\ fw_flash' = Append(fw_flash, Head(fw_chan))
        /\ fw_state' = "idle" =>
               C38_Machine(C38_Received', FALSE, <<>>, 0).marked =
                   C38_Machine(C38_Received, FALSE, <<>>, 0).marked + 1

(* C38: the firmware writer is a two-state machine over the FIFO stream   *)
(* of the channel: idle, Block and Finish are ignored and only Begin      *)
(* starts an update; updating, every Block is written at its offset in    *)
(* receive order, a second Begin is ignored, only Finish ends the update; *)
(* flash is written only between a Begin and the next Finish, and the     *)
(* firmware is marked updated once per Begin..Finish, never without Begin. *)
C38_TwoStates == []C38_InStep /\ [][C38_TakeStep]_vars

(* a Block taken while idle was ignored, then an update wrote a Block and *)
(* was finished                                                          *)
C38_Witness ==
    /\ fw_state = "idle"
    /\ Len(fw_flash) = 1
    /\ Len(C38_Received) >= 4
    /\ C38_Received[1].cmd = "Block"
    /\ C38_Machine(C38_Received, FALSE, <<>>, 0).marked = 1

(***************************************************************************)
(* The indices of KeyState::from_update (specification KeyStateSpec).      *)
(***************************************************************************)
(* C39 as stated: for every update the bus slave can latch, its            *)
(* coordinates any bytes, and every update scanned on this half,           *)
(* KeyState::from_update completes without a panic and sets only places    *)
(* below 2 * NUM_KEYS: the updates the HID reporter has latched index      *)
(* inside the array, and so do those waiting on the signals.               *)
C39_AsStated ==
    /\ ~IndexPanics(hid_left, hid_right)
    /\ left_signal.some => ~IndexPanics(left_signal.v, no_keys)
    /\ right_signal.some => ~IndexPanics(no_keys, right_signal.v)

=============================================================================
